---- MODULE Spec2Model ----
(***************************************************************************)
(* Forecasting pipeline of the HDFC Bank stock predictor: the Supabase     *)
(* tables market_data_raw, features_store, predictions and model_metadata, *)
(* the artifact files under models/saved_models, and the operations that   *)
(* read and write them (feature engineering, dataset construction,         *)
(* training, forecasting, filling in actual prices), the retry loop of     *)
(* the historical bootstrap and the job scheduler.                         *)
(*                                                                         *)
(* Timestamps are integers counting clock ticks; a calendar day has        *)
(* TicksPerDay ticks, so two timestamps can differ and still fall on the   *)
(* same date.  Prices are positive integers (paise).  Null stands for      *)
(* Python None / NaN / SQL NULL in numeric columns.                        *)
(***************************************************************************)
EXTENDS Integers, Sequences, FiniteSets, TLC

VARIABLES now, market_data_raw, features_store, predictions, next_id,
          service_model, model_metadata, saved_models, train_ret, pred_ret,
          fe_ret, seq_df, seq_horizon, seq_ret,
          trainer_model, data_ret, prepared_df, regime_df,
          price_index, range_start, all_prices, page_pc,
          hist_symbol, max_retries, attempt, download_calls, hist_df, hist_ret,
          hist_pc,
          sched_pc, next_run, runnable_jobs, last_job, job_failed

\* the locals of the loops that are followed step by step: the pagination
\* loop of create_sequences, with the rows the database answers its ordered
\* query from, and the retry loop of fetch_historical_data, with the number
\* of yf.download calls made
page_vars == <<price_index, range_start, all_prices, page_pc>>
retry_vars == <<hist_symbol, max_retries, attempt, download_calls, hist_df,
                hist_ret, hist_pc>>
\* the scheduler: where run stands, the ticks until each registered job is
\* due, the jobs the current run_pending pass still has to run, and of every
\* group of jobs (the initial calls, the daily jobs, the 6-hourly jobs) the
\* job that ran last, with whether the last job run failed
sched_vars == <<sched_pc, next_run, runnable_jobs, last_job, job_failed>>
loop_vars == <<page_vars, retry_vars, sched_vars>>

vars == <<now, market_data_raw, features_store, predictions, next_id,
          service_model, model_metadata, saved_models, train_ret, pred_ret,
          fe_ret, seq_df, seq_horizon, seq_ret,
          trainer_model, data_ret, prepared_df, regime_df, loop_vars>>

\* no loop is being followed
\* a DataFrame variable: not yet assigned, None, or a frame of rows rows
Unbound == [state |-> "unbound", rows |-> 0]
NoneValue == [state |-> "none", rows |-> 0]
Frame(rows) == [state |-> "frame", rows |-> rows]

PageIdle ==
    /\ price_index = <<>>
    /\ range_start = 0
    /\ all_prices = <<>>
    /\ page_pc = "idle"

RetryIdle ==
    /\ hist_symbol = "HDFCBANK.NS"
    /\ max_retries = 3
    /\ attempt = 0
    /\ download_calls = 0
    /\ hist_df = Unbound
    /\ hist_ret = Unbound
    /\ hist_pc = "idle"

SchedIdle ==
    /\ sched_pc = "idle"
    /\ next_run = <<>>
    /\ runnable_jobs = <<>>
    /\ last_job = [g \in {"initial", "daily", "hours"} |-> "none"]
    /\ job_failed = FALSE

LoopsIdle == PageIdle /\ RetryIdle /\ SchedIdle

----------------------------------------------------------------------------
(* Bounds of the model *)

TicksPerDay == 2
MaxSeqDays == 3
MaxFeat == 2
MaxPrices == 3
MaxClose == 2
MaxHorizon == 2

(* Program constants and encodings *)

Null == -999
PRIMARY == "HDFCBANK.NS"
SECTOR_INDEX == "^NSEBANK"
PEERS == {"ICICIBANK.NS", "KOTAKBANK.NS", "AXISBANK.NS"}
FEATURE_VERSION == "v1"
range_size == 1000

Closes == 1..MaxClose

----------------------------------------------------------------------------
(* Dates and ordering helpers *)

\* strftime('%Y-%m-%d') / .date(): the calendar date of a timestamp
DateOf(ts) == ts \div TicksPerDay

Min(a, b) == IF a < b THEN a ELSE b

SetMin(S) == CHOOSE x \in S : \A y \in S : x <= y
SetMax(S) == CHOOSE x \in S : \A y \in S : x >= y

\* .order('timestamp', desc=False) / sort_values('timestamp') over rows whose
\* timestamps are pairwise distinct: the earliest row first, then the rest
\* (a long table is first cut in two at the middle of its timestamps)
RECURSIVE OrderByTimestamp(_)
OrderByTimestamp(S) ==
    IF S = {} THEN <<>>
    ELSE IF Cardinality(S) <= 16
    THEN LET m == CHOOSE x \in S : \A y \in S : x.timestamp <= y.timestamp
         IN  <<m>> \o OrderByTimestamp(S \ {m})
    ELSE LET lo  == SetMin({x.timestamp : x \in S})
             hi  == SetMax({x.timestamp : x \in S})
             mid == (lo + hi) \div 2
         IN  OrderByTimestamp({x \in S : x.timestamp <= mid})
             \o OrderByTimestamp({x \in S : x.timestamp > mid})

Front(s) == SubSeq(s, 1, Len(s) - 1)
Last(s) == s[Len(s)]

SeqRange(s) == {s[i] : i \in 1..Len(s)}

----------------------------------------------------------------------------
(* Dataset constructor: AdvancedXGBoostModel.create_sequences *)

\* rows of market_data_raw of one symbol, as select('timestamp, close') returns them
PriceRows(table, symbol) ==
    OrderByTimestamp({[timestamp |-> b.timestamp, close |-> b.close] :
                        b \in {r \in table : r.symbol = symbol}})

\* the while-True pagination loop over .range(range_start, range_start + size - 1)
RECURSIVE FetchAllPrices(_, _, _)
FetchAllPrices(rows, start, size) ==
    LET page == SubSeq(rows, start + 1, Min(start + size, Len(rows)))
    IN  IF page = <<>> THEN <<>>
        ELSE IF Len(page) < size THEN page
        ELSE page \o FetchAllPrices(rows, start + size, size)

\* df.merge(price_df[['date_str', 'close']], on='date_str', how='inner'):
\* left order kept, every left row paired with every right row of its date
RECURSIVE MergeOnDate(_, _)
MergeOnDate(df, price_df) ==
    IF df = <<>> THEN <<>>
    ELSE LET l == Head(df)
             matches == SelectSeq(price_df,
                           LAMBDA p : DateOf(p.timestamp) = DateOf(l.timestamp))
         IN  [i \in 1..Len(matches) |->
                 [timestamp |-> l.timestamp,
                  date_str  |-> DateOf(l.timestamp),
                  complete  |-> l.complete,
                  x         |-> l.x,
                  close     |-> matches[i].close]]
             \o MergeOnDate(Tail(df), price_df)

\* merged.sort_values('date_str'); rows of one date keep their order (the
\* sort pandas applies is an insertion sort for frames this small)
RECURSIVE InsertByDate(_, _)
InsertByDate(sorted, r) ==
    IF sorted = <<>> THEN <<r>>
    ELSE IF Last(sorted).date_str <= r.date_str THEN Append(sorted, r)
    ELSE Append(InsertByDate(Front(sorted), r), Last(sorted))

RECURSIVE SortByDate(_)
SortByDate(s) ==
    IF s = <<>> THEN <<>> ELSE InsertByDate(SortByDate(Front(s)), Last(s))

\* merged['target'] = merged['close'].shift(-forecast_horizon); target_date is
\* the date of the row the target was taken from (bookkeeping only)
ShiftTarget(merged, forecast_horizon) ==
    [i \in 1..Len(merged) |->
        [timestamp   |-> merged[i].timestamp,
         date_str    |-> merged[i].date_str,
         complete    |-> merged[i].complete,
         x           |-> merged[i].x,
         target      |-> IF i + forecast_horizon <= Len(merged)
                         THEN merged[i + forecast_horizon].close ELSE Null,
         target_date |-> IF i + forecast_horizon <= Len(merged)
                         THEN merged[i + forecast_horizon].date_str ELSE Null]]

\* merged.dropna(subset=self.feature_columns + ['target'])
DropNa(merged) == SelectSeq(merged, LAMBDA r : r.complete /\ r.target # Null)

DateRange(rows) ==
    LET ds == {DateOf(rows[i].timestamp) : i \in 1..Len(rows)}
    IN  <<SetMin(ds), SetMax(ds)>>

NoRows == <<>>
NoReport == <<>>

\* create_sequences(df, forecast_horizon) against the price table; df is the
\* non-empty frame prepare_features returned.  raised names the exception that
\* leaves the function, reported the date ranges written to the error log.
create_sequences(df, table, forecast_horizon) ==
    LET price_rows == FetchAllPrices(PriceRows(table, PRIMARY), 0, range_size)
        merged     == MergeOnDate(df, price_rows)
    IN  IF price_rows = <<>>
        THEN [raised |-> "KeyError", reported |-> NoReport, rows |-> NoRows]
        ELSE IF Len(merged) = 0
        THEN [raised   |-> "ValueError",
              reported |-> <<DateRange(df), DateRange(price_rows)>>,
              rows     |-> NoRows]
        ELSE [raised   |-> "none",
              reported |-> NoReport,
              rows     |-> DropNa(ShiftTarget(SortByDate(merged), forecast_horizon))]

----------------------------------------------------------------------------
(* Specification of the dataset constructor on its own: every feature frame *)
(* and price table within the bounds, one call of create_sequences.         *)

SeqTimes == 0..(MaxSeqDays * TicksPerDay - 1)

NotCalled == [raised |-> "not_called", reported |-> NoReport, rows |-> NoRows]

FeatureFrames ==
    {OrderByTimestamp({[timestamp |-> t, complete |-> (t \in C), x |-> 1] : t \in F}) :
        F \in {G \in SUBSET SeqTimes : Cardinality(G) \in 1..MaxFeat},
        C \in SUBSET SeqTimes}

PriceTables ==
    UNION {{{[symbol |-> PRIMARY, timestamp |-> t, close |-> c[t]] : t \in P} :
              c \in [P -> Closes]} :
           P \in {Q \in SUBSET SeqTimes : Cardinality(Q) <= MaxPrices}}

TrainNotCalled ==
    [pipeline |-> "none", outcome |-> "none",
     exception |-> "none", fit_failed |-> FALSE, upserted |-> FALSE,
     replaced |-> FALSE,
     metadata |-> [model_name |-> "none", model_version |-> "none",
                   model_type |-> "none", trained_at |-> Null,
                   training_data_start |-> Null, training_data_end |-> Null,
                   training_samples |-> Null, train_rmse |-> Null,
                   val_rmse |-> Null, status |-> "none", is_production |-> FALSE]]

NoFiles ==
    [p \in {"models/saved_models/advanced_xgboost_v1.0.pkl",
            "models/saved_models/advanced_xgboost_v1.0_scaler.pkl",
            "models/saved_models/advanced_xgboost_v1.0_features.pkl",
            "models/saved_models/baseline_arima_v1.0.pkl"} |->
        [state |-> "absent", param |-> Null, fit_on |-> <<>>, cols |-> <<>>]]

\* PredictionService.__init__: self.model = None
NoModel == [created |-> FALSE, param |-> Null, scaler |-> <<>>,
            feature_columns |-> <<>>]

\* nothing split yet, no frame prepared yet, no row classified yet
NoData == [raised |-> FALSE, train |-> <<>>, val |-> <<>>, scaler |-> <<>>]
NoFrame == [feature_columns |-> <<>>, rows |-> <<>>]
NoRegimeRow ==
    [sma_5 |-> Null, sma_20 |-> Null, sma_50 |-> Null,
     volatility_20d |-> Null, volatility_mean_50 |-> Null]

PredNotCalled == [op |-> "none", generated |-> <<>>, stored |-> FALSE, deleted |-> 0]

FeNotCalled ==
    [called |-> FALSE, result |-> FALSE, store_ok |-> FALSE,
     cols |-> {}, seen |-> [primary |-> 0, index |-> 0, peers |-> 0]]

IdleRest ==
    /\ now = 0
    /\ features_store = {}
    /\ predictions = {}
    /\ next_id = 1
    /\ service_model = NoModel
    /\ model_metadata = {}
    /\ saved_models = NoFiles
    /\ train_ret = TrainNotCalled
    /\ pred_ret = PredNotCalled
    /\ trainer_model = NoModel
    /\ data_ret = NoData
    /\ prepared_df = NoFrame
    /\ regime_df = NoRegimeRow
    /\ fe_ret = FeNotCalled

InitSeq ==
    /\ LoopsIdle
    /\ seq_df \in FeatureFrames
    /\ market_data_raw \in PriceTables
    /\ seq_horizon \in 1..MaxHorizon
    /\ seq_ret = NotCalled
    /\ IdleRest

CreateSequences ==
    /\ seq_ret = NotCalled
    /\ seq_ret' = create_sequences(seq_df, market_data_raw, seq_horizon)
    /\ UNCHANGED <<loop_vars, now, market_data_raw, features_store, predictions, next_id,
                   service_model, model_metadata, saved_models, train_ret,
                   pred_ret, fe_ret, seq_df, seq_horizon,
                   trainer_model, data_ret, prepared_df, regime_df>>

----------------------------------------------------------------------------
(* Feature engineer: FeatureEngineer.engineer_features and its helpers.     *)
(* Numeric features are fixed-point integers: a moving average is kept as   *)
(* the sum of its window (window times the mean), ratios are per-mille.     *)

MaxTime == 1
MaxBars == 2
MaxFailed == 1

SYMBOLS == {PRIMARY, SECTOR_INDEX} \cup PEERS
DaysBack == {365, 730}
batch_size == 1000
PerMille == 1000

KeyCols == {"symbol", "timestamp", "feature_version"}
IndicatorCols == {"sma_5", "sma_20", "sma_50"}
PriceCols == {"returns_1d", "volatility_20d"}
SectorCols == {"correlation_nifty_bank", "correlation_banking_peers",
               "relative_strength_sector"}
RegimeCols == {"regime_classification", "trend_strength"}
\* the feature_columns list of prepare_features_for_storage
StorageCols == KeyCols \cup IndicatorCols \cup PriceCols \cup SectorCols \cup RegimeCols

\* fetch_market_data: rows of the symbol since start_date in timestamp order,
\* or an empty frame when the query returns nothing or raises
fetch_market_data(table, symbol, days_back, t, query_fails) ==
    IF query_fails THEN <<>>
    ELSE OrderByTimestamp({r \in table : /\ r.symbol = symbol
                                         /\ r.timestamp >= t - days_back * TicksPerDay})

RECURSIVE SumCloses(_, _, _)
SumCloses(df, from, to) ==
    IF from > to THEN 0
    ELSE IF from = to THEN df[to].close
    ELSE SumCloses(df, from, (from + to) \div 2)
         + SumCloses(df, (from + to) \div 2 + 1, to)

\* ta.trend.sma_indicator(close, window): undefined for the first window-1 rows
sma_indicator_window_20(df, i, window) ==
    IF i < window \/ i < 20 THEN Null
    ELSE (SumCloses(df, i - 19, i) * window) \div 20

sma_indicator(df, i, window) ==
    IF i < window THEN Null ELSE SumCloses(df, i - window + 1, i)

\* close.pct_change(1)
returns_1d(df, i) ==
    IF i < 2 THEN Null
    ELSE ((df[i].close - df[i - 1].close) * PerMille) \div df[i - 1].close

ISqrt(n) == CHOOSE k \in 0..n : k * k <= n /\ n < (k + 1) * (k + 1)

RECURSIVE SumReturns(_, _, _, _)
SumReturns(df, from, to, squared) ==
    IF from > to THEN 0
    ELSE (IF squared THEN returns_1d(df, to) * returns_1d(df, to)
          ELSE returns_1d(df, to))
         + SumReturns(df, from, to - 1, squared)

\* returns_1d.rolling(window=20).std()
volatility_20d(df, i) ==
    IF i < 21 THEN Null
    ELSE LET s  == SumReturns(df, i - 19, i, FALSE)
             s2 == SumReturns(df, i - 19, i, TRUE)
         IN  ISqrt((20 * s2 - s * s) \div (20 * 19))

\* volatility_20d.rolling(window=50).mean()
RECURSIVE SumVolatility(_, _, _)
SumVolatility(vol, from, to) ==
    IF from > to THEN 0
    ELSE IF from = to THEN vol[to]
    ELSE SumVolatility(vol, from, (from + to) \div 2)
         + SumVolatility(vol, (from + to) \div 2 + 1, to)

\* vol is the volatility_20d column of the frame
volatility_mean_50(vol, i) ==
    IF i < 70 THEN Null ELSE SumVolatility(vol, i - 49, i) \div 50

\* close of the other series at the same timestamp (left merge on timestamp)
CloseAt(other, ts) ==
    LET m == {j \in 1..Len(other) : other[j].timestamp = ts}
    IN  IF m = {} THEN Null ELSE other[CHOOSE j \in m : TRUE].close

\* merged['close'] / merged['close_index']
relative_strength_sector(df, df_index, i) ==
    LET ci == CloseAt(df_index, df[i].timestamp)
    IN  IF ci = Null THEN Null ELSE (df[i].close * PerMille) \div ci

\* rolling(window=20).corr(other returns): undefined until 20 return pairs
\* exist; afterwards the sign of the co-movement of the last pair
rolling_corr_20(df, other, i) ==
    IF i < 21 \/ \E j \in (i - 20)..i : CloseAt(other, df[j].timestamp) = Null
    THEN Null
    ELSE returns_1d(df, i) *
         (CloseAt(other, df[i].timestamp) - CloseAt(other, df[i - 1].timestamp))

Abs(a) == IF a < 0 THEN -a ELSE a

\* abs(sma_5 - sma_50) / sma_50
trend_strength(s5, s50) ==
    IF s5 = Null \/ s50 = Null THEN Null
    ELSE (Abs(s5 * 50 - s50 * 5) * PerMille) \div (s50 * 5)

\* classify_regime on one row: np.select takes the first condition that holds
classify_regime_volatility_first(s5, s20, s50, vol, vol_mean) ==
    LET defined  == s5 # Null /\ s20 # Null /\ s50 # Null
        trend_up == defined /\ s5 * 20 > s20 * 5 /\ s20 * 50 > s50 * 20
        trend_dn == defined /\ s5 * 20 < s20 * 5 /\ s20 * 50 < s50 * 20
        strong   == defined /\ Abs(s5 * 50 - s50 * 5) * 100 > 2 * (s50 * 5)
        high_vol == vol # Null /\ vol_mean # Null /\ vol * 2 > vol_mean * 3
    IN  IF high_vol THEN "high_volatility"
        ELSE IF trend_up /\ strong THEN "trending_up"
        ELSE IF trend_dn /\ strong THEN "trending_down"
        ELSE "ranging"

classify_regime(s5, s20, s50, vol, vol_mean) ==
    LET defined  == s5 # Null /\ s20 # Null /\ s50 # Null
        trend_up == defined /\ s5 * 20 > s20 * 5 /\ s20 * 50 > s50 * 20
        trend_dn == defined /\ s5 * 20 < s20 * 5 /\ s20 * 50 < s50 * 20
        strong   == defined /\ Abs(s5 * 50 - s50 * 5) * 100 > 2 * (s50 * 5)
        high_vol == vol # Null /\ vol_mean # Null /\ vol * 2 > vol_mean * 3
    IN  IF trend_up /\ strong THEN "trending_up"
        ELSE IF trend_dn /\ strong THEN "trending_down"
        ELSE IF high_vol THEN "high_volatility"
        ELSE "ranging"

\* the frame after calculate_technical_indicators, calculate_price_features,
\* calculate_sector_features (only when the index frame is not empty; the
\* peers column only when some peer frame is not empty) and classify_regime
FeatureFrame(df, df_index, df_peers, symbol) ==
    LET sector == df_index # <<>>
        cols   == KeyCols \cup IndicatorCols \cup PriceCols \cup RegimeCols
                  \cup (IF sector
                        THEN {"correlation_nifty_bank", "relative_strength_sector"}
                             \cup (IF df_peers # {} THEN {"correlation_banking_peers"}
                                   ELSE {})
                        ELSE {})
        vols   == [i \in 1..Len(df) |-> volatility_20d(df, i)]
        Row(i) ==
            LET s5  == sma_indicator(df, i, 5)
                s20 == sma_indicator(df, i, 20)
                s50 == sma_indicator(df, i, 50)
                vol == vols[i]
            IN  [symbol |-> symbol,
                 timestamp |-> df[i].timestamp,
                 feature_version |-> FEATURE_VERSION,
                 sma_5 |-> s5, sma_20 |-> s20, sma_50 |-> s50,
                 returns_1d |-> returns_1d(df, i),
                 volatility_20d |-> vol,
                 correlation_nifty_bank |->
                     IF sector THEN rolling_corr_20(df, df_index, i) ELSE Null,
                 correlation_banking_peers |->
                     IF sector /\ df_peers # {}
                     THEN rolling_corr_20(df, CHOOSE p \in df_peers : TRUE, i)
                     ELSE Null,
                 relative_strength_sector |->
                     IF sector THEN relative_strength_sector(df, df_index, i) ELSE Null,
                 regime_classification |->
                     classify_regime(s5, s20, s50, vol, volatility_mean_50(vols, i)),
                 trend_strength |-> trend_strength(s5, s50)]
    IN  [cols |-> cols, rows |-> [i \in 1..Len(df) |-> Row(i)]]

\* prepare_features_for_storage: the records keep only the columns the frame has
prepare_features_for_storage_all_columns(frame) ==
    [raised  |-> ~(StorageCols \subseteq frame.cols),
     cols    |-> StorageCols,
     records |-> IF StorageCols \subseteq frame.cols THEN frame.rows ELSE <<>>]

prepare_features_for_storage(frame) ==
    [raised  |-> FALSE,
     cols    |-> StorageCols \cap frame.cols,
     records |-> frame.rows]

\* on_conflict='symbol,timestamp,feature_version'
SameFeatureKey(e, rec) ==
    /\ e.symbol = rec.symbol
    /\ e.timestamp = rec.timestamp
    /\ e.feature_version = rec.feature_version

\* the row an upserted record leaves in the table: the columns the record
\* carries overwrite, the others keep the stored value (NULL in a new row)
UpsertedFeature(store, cols, rec) ==
    LET same == {e \in store : SameFeatureKey(e, rec)}
    IN  IF same = {} THEN rec
        ELSE LET e == CHOOSE e \in same : TRUE
             IN  [c \in DOMAIN rec |-> IF c \in cols THEN rec[c] ELSE e[c]]

\* upsert(batch, on_conflict=...) of the records of one frame, whose keys
\* are pairwise distinct: every record leaves its row, the rows of other
\* keys stay
UpsertFeatures(store, cols, records) ==
    {e \in store : \A i \in 1..Len(records) : ~SameFeatureKey(e, records[i])}
    \cup {UpsertedFeature(store, cols, records[i]) : i \in 1..Len(records)}

NumBatches(n) == (n + batch_size - 1) \div batch_size

\* store_features: upserts batch after batch; batches_ok batches succeed
\* before the database raises (all of them when batches_ok is the batch count)
store_features(store, cols, records, batches_ok) ==
    LET stored == SubSeq(records, 1, Min(Len(records), batches_ok * batch_size))
    IN  [result |-> batches_ok >= NumBatches(Len(records)),
         store  |-> UpsertFeatures(store, cols, stored)]

\* df_primary.empty
PrimaryEmpty_never(df_primary) == FALSE

PrimaryEmpty(df_primary) == df_primary = <<>>

\* engineer_features(symbol, days_back): failed names the symbols whose fetch
\* query raises, batches_ok the batches the store accepts
engineer_features(table, store, symbol, days_back, t, failed, batches_ok) ==
    LET df_primary == fetch_market_data(table, symbol, days_back, t, symbol \in failed)
        df_index   == fetch_market_data(table, SECTOR_INDEX, days_back, t,
                                        SECTOR_INDEX \in failed)
        df_peers   == {fetch_market_data(table, p, days_back, t, p \in failed) :
                          p \in PEERS} \ {<<>>}
        frame      == FeatureFrame(df_primary, df_index, df_peers, symbol)
        prepared   == prepare_features_for_storage(frame)
        stored     == store_features(store, prepared.cols, prepared.records, batches_ok)
        seen       == [primary |-> Len(df_primary), index |-> Len(df_index),
                       peers |-> Cardinality(df_peers)]
    IN  IF PrimaryEmpty(df_primary)
        THEN [result |-> FALSE, store |-> store, cols |-> {}, seen |-> seen]
        ELSE IF prepared.raised
        THEN [result |-> FALSE, store |-> store, cols |-> {}, seen |-> seen]
        ELSE [result |-> stored.result, store |-> stored.store,
              cols |-> prepared.cols, seen |-> seen]

----------------------------------------------------------------------------
(* Specification of the feature engineer: the clock, the ingestion of price *)
(* bars of the seven tracked series the engineer reads, and runs of         *)
(* engineer_features with any set of failing fetch queries.                 *)

InitFE ==
    /\ LoopsIdle
    /\ now = 0
    /\ market_data_raw = {}
    /\ features_store = {}
    /\ fe_ret = FeNotCalled
    /\ predictions = {}
    /\ next_id = 1
    /\ service_model = NoModel
    /\ model_metadata = {}
    /\ saved_models = NoFiles
    /\ train_ret = TrainNotCalled
    /\ pred_ret = PredNotCalled
    /\ trainer_model = NoModel
    /\ data_ret = NoData
    /\ prepared_df = NoFrame
    /\ regime_df = NoRegimeRow
    /\ seq_df = <<>>
    /\ seq_horizon = 1
    /\ seq_ret = NotCalled

\* the wall clock advances
Tick(limit) ==
    /\ now < limit
    /\ now' = now + 1
    /\ UNCHANGED <<loop_vars, market_data_raw, features_store, predictions, next_id,
                   service_model, model_metadata, saved_models, train_ret,
                   pred_ret, fe_ret, seq_df, seq_horizon, seq_ret,
                   trainer_model, data_ret, prepared_df, regime_df>>

\* upsert(records, on_conflict='symbol,timestamp') of one record
upsert_market_data(table, rec) ==
    {r \in table : ~(r.symbol = rec.symbol /\ r.timestamp = rec.timestamp)} \cup {rec}

\* store_market_data of a one-bar frame (historical bootstrap or realtime
\* ingestion): the bar is dated no later than the clock
StoreMarketData(symbol, ts, close) ==
    /\ ts <= now
    /\ Cardinality(upsert_market_data(market_data_raw,
            [symbol |-> symbol, timestamp |-> ts, close |-> close])) <= MaxBars
    /\ market_data_raw' = upsert_market_data(market_data_raw,
            [symbol |-> symbol, timestamp |-> ts, close |-> close])
    /\ UNCHANGED <<loop_vars, now, features_store, predictions, next_id, service_model,
                   model_metadata, saved_models, train_ret, pred_ret, fe_ret,
                   seq_df, seq_horizon, seq_ret,
                   trainer_model, data_ret, prepared_df, regime_df>>

EngineerFeatures(days_back, failed, batches_ok) ==
    \E r \in {engineer_features(market_data_raw, features_store, PRIMARY,
                                 days_back, now, failed, batches_ok)} :
        /\ features_store' = r.store
        /\ fe_ret' = [called |-> TRUE, result |-> r.result,
                      store_ok |-> batches_ok >= NumBatches(r.seen.primary),
                      cols |-> r.cols, seen |-> r.seen]
        /\ UNCHANGED <<loop_vars, now, market_data_raw, predictions, next_id, service_model,
                       model_metadata, saved_models, train_ret, pred_ret,
                       seq_df, seq_horizon, seq_ret,
                   trainer_model, data_ret, prepared_df, regime_df>>

NextFE ==
    \/ Tick(MaxTime)
    \/ \E symbol \in SYMBOLS, ts \in 0..MaxTime, close \in Closes :
          StoreMarketData(symbol, ts, close)
    \/ \E days_back \in DaysBack, batches_ok \in 0..1,
          failed \in {F \in SUBSET SYMBOLS : Cardinality(F) <= MaxFailed} :
          EngineerFeatures(days_back, failed, batches_ok)

SpecFE == InitFE /\ [][NextFE]_vars

\* a step of SpecFE that leaves the clock and the price table alone is a run
\* of engineer_features
FeRan == now' = now /\ market_data_raw' = market_data_raw

PrimaryRowsStored(store, table, t) ==
    \A b \in table :
        (b.symbol = PRIMARY /\ b.timestamp >= t - 365 * TicksPerDay)
            => \E row \in store : /\ row.symbol = PRIMARY
                                  /\ row.timestamp = b.timestamp
                                  /\ row.feature_version = FEATURE_VERSION

(* C9: when the primary symbol's PriceBar series is empty, engineer_features *)
(* signals the failure to its caller (returns False) and leaves the feature  *)
(* store unchanged.                                                          *)
C9_EmptyPrimaryNoWrite ==
    [][(FeRan /\ fe_ret'.seen.primary = 0)
          => (fe_ret'.result = FALSE /\ features_store' = features_store)]_vars

C9_Witness ==
    /\ fe_ret.called /\ fe_ret.seen.primary = 0 /\ fe_ret.result = FALSE
    /\ features_store # {}

(* C10: with a non-empty primary series and an empty sector-index series or *)
(* an empty peer series, engineer_features does not fail: when the store    *)
(* accepts the batch it returns True, a feature row of every primary bar is *)
(* stored, and the sector columns that could not be computed are omitted    *)
(* from the stored records.                                                 *)
C10_MissingSectorDataTolerated ==
    [][(/\ FeRan
        /\ fe_ret'.seen.primary > 0
        /\ (fe_ret'.seen.index = 0 \/ fe_ret'.seen.peers < Cardinality(PEERS))
        /\ fe_ret'.store_ok)
          => /\ fe_ret'.result = TRUE
             /\ PrimaryRowsStored(features_store', market_data_raw, now)
             /\ (fe_ret'.seen.index = 0 => fe_ret'.cols \cap SectorCols = {})
             /\ (fe_ret'.seen.peers = 0 =>
                    "correlation_banking_peers" \notin fe_ret'.cols)]_vars

C10_Witness ==
    /\ fe_ret.called /\ fe_ret.result = TRUE
    /\ fe_ret.seen.primary > 0 /\ fe_ret.seen.index = 0
    /\ \E row \in features_store : row.symbol = PRIMARY

----------------------------------------------------------------------------
(* Training pipelines and model registry: train_advanced_model and          *)
(* train_baseline_model with the artifact files and the model_metadata      *)
(* table they write.                                                        *)

ScenarioDays == 7
MaxParam == 2

ADVANCED_NAME == "advanced_xgboost"
BASELINE_NAME == "baseline_arima"
MODEL_VERSION == "v1.0"
MODEL_PATH == "models/saved_models/advanced_xgboost_v1.0.pkl"
SCALER_PATH == "models/saved_models/advanced_xgboost_v1.0_scaler.pkl"
FEATURES_PATH == "models/saved_models/advanced_xgboost_v1.0_features.pkl"
BASELINE_PATH == "models/saved_models/baseline_arima_v1.0.pkl"
Paths == {MODEL_PATH, SCALER_PATH, FEATURES_PATH, BASELINE_PATH}

\* the columns of the stored row that prepare_features lists in feature_columns
ModelBaseCols == IndicatorCols \cup PriceCols \cup SectorCols \cup {"trend_strength"}
LagCols == {"returns_1d", "volatility_20d"}

\* self.feature_columns as prepare_features builds it from scratch on every
\* call: the fixed list (the modelled columns of it), then two lags per lag
\* feature the frame has, the rolling statistics when the frame has
\* returns_1d, the regime dummies when it has regime_classification
BaseFeatureColumns ==
    <<"sma_5", "sma_20", "sma_50", "returns_1d", "volatility_20d",
      "correlation_nifty_bank", "correlation_banking_peers",
      "relative_strength_sector", "trend_strength">>

all_regimes == <<"high_volatility", "ranging", "trending_down", "trending_up">>

regime_cols ==
    <<"regime_high_volatility", "regime_ranging",
      "regime_trending_down", "regime_trending_up">>

prepare_feature_columns(cols) ==
    BaseFeatureColumns
    \o (IF "returns_1d" \in cols
        THEN <<"returns_1d_lag1", "returns_1d_lag2">> ELSE <<>>)
    \o (IF "volatility_20d" \in cols
        THEN <<"volatility_20d_lag1", "volatility_20d_lag2">> ELSE <<>>)
    \o (IF "returns_1d" \in cols
        THEN <<"returns_1d_rolling_mean_5", "returns_1d_rolling_std_5">> ELSE <<>>)
    \o (IF "regime_classification" \in cols THEN regime_cols ELSE <<>>)

\* the list for a frame fetched with select('*') from features_store
feature_columns == prepare_feature_columns(StorageCols)

\* fetch_training_data of the advanced model: the rows of the last days_back
\* days, all rows when that window is empty
fetch_training_data(store, symbol, days_back, t) ==
    LET mine   == {r \in store : r.symbol = symbol /\ r.feature_version = FEATURE_VERSION}
        recent == {r \in mine : r.timestamp >= t - days_back * TicksPerDay}
    IN  OrderByTimestamp(IF recent # {} THEN recent ELSE mine)

\* prepare_features, then the view create_sequences takes of a row: complete
\* says that no column of feature_columns is NaN in it (shift(1), shift(2)
\* and rolling(5) leave the first rows undefined), x is its feature value
\* the value prepare_features gives the dummy column of regime in a row
\* classified label: 0 first, then 1 where regime_classification == regime
regime_dummy_ranging_default(label, regime) ==
    IF regime = "ranging" \/ label = regime THEN 1 ELSE 0

regime_dummy(label, regime) == IF label = regime THEN 1 ELSE 0

prepare_features(df) ==
    [i \in 1..Len(df) |->
        [timestamp |-> df[i].timestamp,
         complete  |-> /\ \A c \in ModelBaseCols : df[i][c] # Null
                       /\ i >= 3
                       /\ \A c \in LagCols : df[i - 1][c] # Null /\ df[i - 2][c] # Null
                       /\ i >= 5
                       /\ \A j \in (i - 4)..i : df[j].returns_1d # Null,
         x         |-> df[i].sma_5,
         regime_high_volatility |->
             regime_dummy(df[i].regime_classification, "high_volatility"),
         regime_ranging |->
             regime_dummy(df[i].regime_classification, "ranging"),
         regime_trending_down |->
             regime_dummy(df[i].regime_classification, "trending_down"),
         regime_trending_up |->
             regime_dummy(df[i].regime_classification, "trending_up")]]

RECURSIVE SumSeq(_)
SumSeq(xs) == IF xs = <<>> THEN 0 ELSE Head(xs) + SumSeq(Tail(xs))

\* StandardScaler: fit_transform sets the parameters from X (it raises on an
\* X without rows); transform scales X with the parameters it finds and
\* raises when there are none.  The parameters are kept as the column they
\* were fit on, a scaled value as its distance to the mean times the count.
fit_transform(X) ==
    [raised |-> X = <<>>, scaler |-> X,
     scaled |-> [i \in 1..Len(X) |-> X[i] * Len(X) - SumSeq(X)]]

transform_refits(scaler, X) == fit_transform(X)

transform(scaler, X) ==
    [raised |-> scaler = <<>>, scaler |-> scaler,
     scaled |-> [i \in 1..Len(X) |-> X[i] * Len(scaler) - SumSeq(scaler)]]

\* prepare_data: chronological split at train_ratio = 0.8, fit_transform on
\* the train rows, transform on the validation rows
prepare_data(rows) ==
    LET train_size == (Len(rows) * 8) \div 10
        X_train    == [i \in 1..train_size |-> rows[i].x]
        X_val      == [i \in 1..(Len(rows) - train_size) |-> rows[train_size + i].x]
    IN  [raised  |-> fit_transform(X_train).raised,
         train   |-> SubSeq(rows, 1, train_size),
         val     |-> SubSeq(rows, train_size + 1, Len(rows)),
         scaler  |-> transform(fit_transform(X_train).scaler, X_val).scaler]

\* train_advanced_model between create_sequences and train: prepare_data on
\* the dataset create_sequences returned
PrepareData ==
    /\ seq_ret.raised = "none"
    /\ data_ret = NoData
    /\ data_ret' = prepare_data(seq_ret.rows)
    /\ UNCHANGED <<loop_vars, now, market_data_raw, features_store, predictions, next_id,
                   service_model, model_metadata, saved_models, train_ret,
                   pred_ret, fe_ret, seq_df, seq_horizon, seq_ret,
                   trainer_model, prepared_df, regime_df>>

\* the dataset constructor on its own: create_sequences, then prepare_data
NextSeq == CreateSequences \/ PrepareData

SpecSeq == InitSeq /\ [][NextSeq]_vars

(* C18: prepare_data cuts the dataset create_sequences returned into a     *)
(* train prefix of floor(0.8 n) rows and a validation suffix of the rest,   *)
(* in order and without loss, and every validation row's timestamp is       *)
(* strictly later than every train row's timestamp.                         *)
C18_ChronologicalSplit ==
    (data_ret # NoData /\ ~data_ret.raised) =>
        /\ Len(data_ret.train) = (Len(seq_ret.rows) * 8) \div 10
        /\ data_ret.train \o data_ret.val = seq_ret.rows
        /\ \A i \in 1..Len(data_ret.train), j \in 1..Len(data_ret.val) :
              data_ret.val[j].timestamp > data_ret.train[i].timestamp

\* the error metric (RMSE) of a fitted model on the data of the run
Rmse(fitted) == fitted

\* train: fit produces the model param, or raises; a fit exception is logged
\* and raised again
train_swallows(fit_ok, param) ==
    [raised |-> FALSE, fitted |-> IF fit_ok THEN param ELSE Null,
     train_rmse |-> IF fit_ok THEN Rmse(param) ELSE 0]

train(fit_ok, param) ==
    IF fit_ok THEN [raised |-> FALSE, fitted |-> param, train_rmse |-> Rmse(param)]
    ELSE [raised |-> TRUE, fitted |-> Null, train_rmse |-> 0]

\* validate: any exception is logged and {} returned, which save_metadata
\* reads as 0
validate(val_ok, fitted) == IF val_ok THEN Rmse(fitted) ELSE 0

Absent == [state |-> "absent", param |-> Null, fit_on |-> <<>>, cols |-> <<>>]
ModelFile(param) == [state |-> "ok", param |-> param, fit_on |-> <<>>, cols |-> <<>>]
ScalerFile(fit_on) == [state |-> "ok", param |-> Null, fit_on |-> fit_on, cols |-> <<>>]
FeaturesFile(cols) == [state |-> "ok", param |-> Null, fit_on |-> <<>>, cols |-> cols]

\* joblib.dump of the files in order; dumps_ok dumps succeed, the next one
\* raises (the exception is logged and swallowed) and the rest is not written
DumpAll(files, paths, contents, dumps_ok) ==
    [p \in Paths |->
        IF \E i \in 1..Min(dumps_ok, Len(paths)) : paths[i] = p
        THEN contents[CHOOSE i \in 1..Len(paths) : paths[i] = p]
        ELSE files[p]]

save_model(files, param, scaler, cols, dumps_ok) ==
    DumpAll(files, <<MODEL_PATH, SCALER_PATH, FEATURES_PATH>>,
            <<ModelFile(param), ScalerFile(scaler), FeaturesFile(cols)>>, dumps_ok)

save_baseline_model(files, param, dumps_ok) ==
    DumpAll(files, <<BASELINE_PATH>>, <<ModelFile(param)>>, dumps_ok)

\* upsert(metadata, on_conflict='model_name,model_version')
upsert_appends(registry, metadata) == registry \cup {metadata}

upsert(registry, metadata) ==
    {r \in registry : ~(/\ r.model_name = metadata.model_name
                        /\ r.model_version = metadata.model_version)}
    \cup {metadata}

Metadata(name, type, t, start, end, samples, train_rmse, val_rmse, production) ==
    [model_name |-> name, model_version |-> MODEL_VERSION, model_type |-> type,
     trained_at |-> t, training_data_start |-> start, training_data_end |-> end,
     training_samples |-> samples, train_rmse |-> train_rmse,
     val_rmse |-> val_rmse, status |-> "active", is_production |-> production]

NoMetadata == Metadata("none", "none", Null, Null, Null, Null, Null, Null, FALSE)

\* save_metadata: the record is upserted unless the database raises (logged
\* and swallowed)
save_metadata(registry, metadata, db_ok) ==
    IF db_ok THEN upsert(registry, metadata) ELSE registry

TrainOutcome(outcome, exception, fit_failed, files, registry, metadata, upserted) ==
    [outcome |-> outcome, exception |-> exception, fit_failed |-> fit_failed,
     files |-> files, registry |-> registry, metadata |-> metadata,
     upserted |-> upserted]

\* the outcomes of the calls whose result the tables do not determine: does
\* fit succeed and with which model, does validate succeed, how many dumps
\* succeed, does the registry accept the upsert (what follows a raised fit
\* is never called)
TrainInputs ==
    {in \in [fit_ok : BOOLEAN, param : 1..MaxParam, val_ok : BOOLEAN,
             dumps_ok : 0..3, db_ok : BOOLEAN] :
        ~in.fit_ok => (in.param = 1 /\ in.val_ok /\ in.dumps_ok = 3 /\ in.db_ok)}

\* train_advanced_model from the fitted model on: validate, save_model,
\* save_metadata
PersistAdvanced(seq, data, fit, files, registry, t, in) ==
    LET meta == Metadata(ADVANCED_NAME, "XGBoost", t,
                         seq.rows[1].timestamp, seq.rows[Len(seq.rows)].timestamp,
                         Len(data.train), fit.train_rmse,
                         validate(in.val_ok, fit.fitted), TRUE)
    IN  IF fit.raised
        THEN TrainOutcome("raised", "fit", TRUE, files, registry, NoMetadata, FALSE)
        ELSE TrainOutcome("completed", "none", ~in.fit_ok,
                          save_model(files, fit.fitted, data.scaler, feature_columns,
                                     in.dumps_ok),
                          save_metadata(registry, meta, in.db_ok), meta, in.db_ok)

\* train_advanced_model from the dataset on: prepare_data, train
TrainOnSequences(seq, data, files, registry, t, in) ==
    IF seq.raised # "none"
    THEN TrainOutcome("raised", seq.raised, FALSE, files, registry, NoMetadata, FALSE)
    ELSE IF data.raised
    THEN TrainOutcome("raised", "ValueError", FALSE, files, registry, NoMetadata, FALSE)
    ELSE PersistAdvanced(seq, data, train(in.fit_ok, in.param), files, registry, t, in)

TrainOnFrame(df, seq, files, registry, t, in) ==
    IF df = <<>>
    THEN TrainOutcome("returned_none", "none", FALSE, files, registry, NoMetadata, FALSE)
    ELSE TrainOnSequences(seq, prepare_data(seq.rows), files, registry, t, in)

\* train_advanced_model(symbol)
train_advanced_model(store, table, files, registry, t, in) ==
    TrainOnFrame(fetch_training_data(store, PRIMARY, 730, t),
                 create_sequences(
                    prepare_features(fetch_training_data(store, PRIMARY, 730, t)),
                    table, 1),
                 files, registry, t, in)

\* fetch_training_data of the baseline model: the closes since start_date;
\* an empty answer raises inside and comes back as an empty frame
fetch_baseline_data(table, symbol, days_back, t) ==
    OrderByTimestamp({r \in table : /\ r.symbol = symbol
                                    /\ r.timestamp >= t - days_back * TicksPerDay})

\* train_baseline_model from the fitted model on
PersistBaseline(df, train_size, fit, files, registry, t, in) ==
    LET meta == Metadata(BASELINE_NAME, "SARIMAX", t,
                         df[1].timestamp, df[train_size].timestamp,
                         train_size, fit.train_rmse,
                         validate(in.val_ok, fit.fitted), FALSE)
    IN  IF fit.raised
        THEN TrainOutcome("raised", "fit", TRUE, files, registry, NoMetadata, FALSE)
        ELSE TrainOutcome("completed", "none", fit.fitted = Null,
                          save_baseline_model(files, fit.fitted, in.dumps_ok),
                          save_metadata(registry, meta, in.db_ok), meta, in.db_ok)

\* prepare_data of the baseline and train: SARIMAX raises on an empty series
TrainBaselineOnFrame(df, train_size, files, registry, t, in) ==
    IF df = <<>>
    THEN TrainOutcome("returned_none", "none", FALSE, files, registry, NoMetadata, FALSE)
    ELSE PersistBaseline(df, train_size, train(in.fit_ok /\ train_size > 0, in.param),
                         files, registry, t, in)

\* train_baseline_model(symbol)
train_baseline_model(table, files, registry, t, in) ==
    TrainBaselineOnFrame(fetch_baseline_data(table, PRIMARY, 730, t),
                         (Len(fetch_baseline_data(table, PRIMARY, 730, t)) * 8) \div 10,
                         files, registry, t, in)

----------------------------------------------------------------------------
(* Specification of training and registry: the tables hold either nothing   *)
(* or ScenarioDays days of complete feature rows and price bars, and the    *)
(* two training pipelines run in any order with any outcome of fitting,     *)
(* validation, file dumps and the registry upsert.                          *)

ScenarioRow(day) ==
    [symbol |-> PRIMARY, timestamp |-> day * TicksPerDay,
     feature_version |-> FEATURE_VERSION,
     sma_5 |-> 5, sma_20 |-> 20, sma_50 |-> 50, returns_1d |-> 0,
     volatility_20d |-> 0, correlation_nifty_bank |-> 0,
     correlation_banking_peers |-> 0, relative_strength_sector |-> PerMille,
     regime_classification |-> "ranging", trend_strength |-> 0]

ScenarioFeatures == {ScenarioRow(day) : day \in 0..(ScenarioDays - 1)}

ScenarioPrices(first_day) ==
    {[symbol |-> PRIMARY, timestamp |-> day * TicksPerDay, close |-> 1] :
        day \in first_day..(first_day + ScenarioDays - 1)}

TrainClock0 == 2 * ScenarioDays * TicksPerDay

InitReg ==
    /\ LoopsIdle
    /\ now = TrainClock0
    /\ features_store \in {{}, ScenarioFeatures}
    /\ market_data_raw \in {{}, ScenarioPrices(0), ScenarioPrices(ScenarioDays)}
    /\ model_metadata = {}
    /\ saved_models = NoFiles
    /\ train_ret = TrainNotCalled
    /\ fe_ret = FeNotCalled
    /\ predictions = {}
    /\ next_id = 1
    /\ service_model = NoModel
    /\ pred_ret = PredNotCalled
    /\ trainer_model = NoModel
    /\ data_ret = NoData
    /\ prepared_df = NoFrame
    /\ regime_df = NoRegimeRow
    /\ seq_df = <<>>
    /\ seq_horizon = 1
    /\ seq_ret = NotCalled

TrainStep(pipeline, r) ==
    /\ saved_models' = r.files
    /\ model_metadata' = r.registry
    /\ train_ret' = [pipeline |-> pipeline, outcome |-> r.outcome,
                     exception |-> r.exception, fit_failed |-> r.fit_failed,
                     upserted |-> r.upserted,
                     replaced |-> r.upserted /\
                        \E q \in model_metadata :
                            /\ q.model_name = r.metadata.model_name
                            /\ q.model_version = r.metadata.model_version,
                     metadata |-> r.metadata]
    /\ UNCHANGED <<loop_vars, now, market_data_raw, features_store, predictions, next_id,
                   service_model, pred_ret, fe_ret, seq_df, seq_horizon, seq_ret,
                   trainer_model, data_ret, prepared_df, regime_df>>

TrainAdvanced(in) ==
    \E r \in {train_advanced_model(features_store, market_data_raw,
                                    saved_models, model_metadata, now, in)} :
        TrainStep("advanced", r)

TrainBaseline(in) ==
    \E r \in {train_baseline_model(market_data_raw, saved_models,
                                    model_metadata, now, in)} :
        TrainStep("baseline", r)

NextReg ==
    \/ \E in \in TrainInputs : TrainAdvanced(in)
    \/ \E in \in TrainInputs : TrainBaseline(in)

SpecReg == InitReg /\ [][NextReg]_vars

\* a step of SpecReg that leaves the clock and the data tables alone is a
\* run of a training pipeline
TrainRan ==
    now' = now /\ market_data_raw' = market_data_raw /\ features_store' = features_store

ProductionRecords(registry, name) ==
    {r \in registry : r.model_name = name /\ r.is_production /\ r.status = "active"}

RegisteredNames(registry) == {r.model_name : r \in registry}

(* C4: completing a training run never changes which model version is      *)
(* flagged production/active in the registry.                               *)
C4_TrainingKeepsProductionFlag ==
    [][TrainRan =>
          \A name \in {ADVANCED_NAME, BASELINE_NAME} :
              {r.model_version : r \in ProductionRecords(model_metadata', name)}
              = {r.model_version : r \in ProductionRecords(model_metadata, name)}]_vars

(* C5 as claimed: every registered model_name has exactly one version       *)
(* flagged production, never zero and never more than one.                  *)
C5_ExactlyOneProduction ==
    \A name \in RegisteredNames(model_metadata) :
        Cardinality(ProductionRecords(model_metadata, name)) = 1

(* C5 as amended: after any sequence of save_metadata calls no model_name   *)
(* has more than one record flagged production; a name may have none (the   *)
(* baseline is registered with is_production false).                        *)
C5_AtMostOneProduction ==
    \A name \in RegisteredNames(model_metadata) :
        Cardinality(ProductionRecords(model_metadata, name)) <= 1

C5_Witness ==
    /\ train_ret.replaced /\ train_ret.pipeline = "advanced"
    /\ Cardinality(ProductionRecords(model_metadata, ADVANCED_NAME)) = 1
    /\ BASELINE_NAME \in RegisteredNames(model_metadata)
    /\ ProductionRecords(model_metadata, BASELINE_NAME) = {}

(* C6: the registry holds at most one record per (model_name,               *)
(* model_version), and it is the metadata of the most recent registration   *)
(* of that version: a save_metadata whose upsert went through leaves its    *)
(* record as the only one of its key and the other keys untouched, and      *)
(* nothing else changes the registry.                                       *)
C6_UpsertKeepsLatestOnly ==
    /\ [](\A r1, r2 \in model_metadata :
             (r1.model_name = r2.model_name /\ r1.model_version = r2.model_version)
                 => r1 = r2)
    /\ [][IF TrainRan /\ train_ret'.upserted
          THEN /\ train_ret'.metadata \in model_metadata'
               /\ \A r \in model_metadata' :
                     r # train_ret'.metadata =>
                        /\ r \in model_metadata
                        /\ r.model_name # train_ret'.metadata.model_name
               /\ \A r \in model_metadata :
                     r.model_name # train_ret'.metadata.model_name
                        => r \in model_metadata'
          ELSE model_metadata' = model_metadata]_vars

C6_Witness ==
    /\ train_ret.replaced
    /\ train_ret.metadata \in model_metadata
    /\ Cardinality(model_metadata) = 2

(* C7: if model fitting raises in train, the error reaches the caller of    *)
(* the training pipeline and that run writes no artifact file and no        *)
(* registry record.                                                         *)
C7_FitFailureWritesNothing ==
    [][(TrainRan /\ train_ret'.fit_failed)
          => /\ train_ret'.outcome = "raised"
             /\ saved_models' = saved_models
             /\ model_metadata' = model_metadata]_vars

C7_Witness ==
    /\ train_ret.fit_failed /\ train_ret.outcome = "raised"
    /\ train_ret.pipeline = "advanced"
    /\ model_metadata # {}
    /\ saved_models[MODEL_PATH].state = "ok"

----------------------------------------------------------------------------
(* C2: every row create_sequences returns has its target taken from a date *)
(* strictly later than the row's own feature date.                         *)
C2_TargetAfterFeatureDate ==
    \A i \in 1..Len(seq_ret.rows) :
        seq_ret.rows[i].target_date > seq_ret.rows[i].date_str

(* C8: whenever the date join yields zero rows (an empty price series      *)
(* included), create_sequences fails with the alignment error that reports *)
(* the min/max date range of both sides, and returns no dataset.           *)
C8_EmptyJoinAlignmentError ==
    (seq_ret.raised # "not_called" /\
     MergeOnDate(seq_df, PriceRows(market_data_raw, PRIMARY)) = <<>>)
        => /\ seq_ret.raised = "ValueError"
           /\ seq_ret.reported # NoReport
           /\ seq_ret.rows = NoRows

----------------------------------------------------------------------------
(* Prediction service: PredictionService.generate_predictions,              *)
(* store_predictions and update_actual_prices over the predictions table.   *)
(* Probabilities and the confidence level are percentages.                  *)

MaxPredDays == 1
MaxForecastDays == 2
MaxId == 3

\* AdvancedXGBoostModel.load_model inside PredictionService.load_model: the
\* files are loaded in order, the first failing load is logged and swallowed
\* and leaves the rest of the fresh object as __init__ made it
load_model(files) ==
    IF files[MODEL_PATH].state # "ok"
    THEN [created |-> TRUE, param |-> Null, scaler |-> <<>>,
          feature_columns |-> <<>>]
    ELSE IF files[SCALER_PATH].state # "ok"
    THEN [created |-> TRUE, param |-> files[MODEL_PATH].param, scaler |-> <<>>,
          feature_columns |-> <<>>]
    ELSE [created |-> TRUE, param |-> files[MODEL_PATH].param,
          scaler |-> files[SCALER_PATH].fit_on,
          feature_columns |-> IF files[FEATURES_PATH].state = "ok"
                              THEN files[FEATURES_PATH].cols ELSE <<>>]

\* fetch_latest_features(days_back=100); a failing or empty answer comes back
\* as an empty frame
fetch_latest_features(store, t, fetch_ok) ==
    IF fetch_ok
    THEN OrderByTimestamp({r \in store : /\ r.symbol = PRIMARY
                                         /\ r.feature_version = FEATURE_VERSION
                                         /\ r.timestamp >= t - 100 * TicksPerDay})
    ELSE <<>>

\* the close of the latest bar of the symbol: order('timestamp', desc=True).limit(1)
current_price(table) ==
    LET bars == PriceRows(table, PRIMARY)
    IN  IF bars = <<>> THEN Null ELSE Last(bars).close

\* the direction label and its probability, dead band of 0.1 %
direction_band_inclusive(predicted_price, price) ==
    IF price = Null THEN [label |-> "None", probability |-> Null]
    ELSE IF predicted_price * PerMille >= price * (PerMille + 1)
    THEN [label |-> "UP", probability |-> 65]
    ELSE IF predicted_price * PerMille <= price * (PerMille - 1)
    THEN [label |-> "DOWN", probability |-> 65]
    ELSE [label |-> "NEUTRAL", probability |-> 50]

direction(predicted_price, price) ==
    IF price = Null THEN [label |-> "None", probability |-> Null]
    ELSE IF predicted_price * PerMille > price * (PerMille + 1)
    THEN [label |-> "UP", probability |-> 65]
    ELSE IF predicted_price * PerMille < price * (PerMille - 1)
    THEN [label |-> "DOWN", probability |-> 65]
    ELSE [label |-> "NEUTRAL", probability |-> 50]

\* z_score = 1.96 of predict, in thousandths
z_score == 1960

\* n times np.std(predictions), the population deviation (ddof = 0): the
\* root of n * sum(d^2) - sum(d)^2 over the distances d of the answers from
\* the first one (a deviation does not change when every value is shifted)
std_of(y_hat) ==
    LET dist == [i \in 1..Len(y_hat) |-> y_hat[i] - y_hat[1]]
    IN  ISqrt(Len(y_hat) * SumSeq([i \in 1..Len(y_hat) |-> dist[i] * dist[i]])
              - SumSeq(dist) * SumSeq(dist))

\* z_score * std_error with std_error = np.std(predictions) * 0.1, rounded
\* down to the unit of the prices
interval_half_width(y_hat, z) ==
    (z * std_of(y_hat)) \div (Len(y_hat) * 10000)

\* a predict whose error estimate is a tenth of the prediction itself
predict_error_of_price(y_hat, confidence_level) ==
    [i \in 1..Len(y_hat) |->
        [predicted_price  |-> y_hat[i],
         confidence_lower |-> y_hat[i] - (z_score * y_hat[i]) \div 10000 - 1,
         confidence_upper |-> y_hat[i] + (z_score * y_hat[i]) \div 10000 + 1]]

\* AdvancedXGBoostModel.predict on the regressor's answers for the rows of X:
\* one row per answer; confidence_level is accepted and not used, the
\* interval is always z_score wide
predict(y_hat, confidence_level) ==
    LET half_width == interval_half_width(y_hat, z_score)
    IN  [i \in 1..Len(y_hat) |->
            [predicted_price  |-> y_hat[i],
             confidence_lower |-> y_hat[i] - half_width,
             confidence_upper |-> y_hat[i] + half_width]]

\* the record generate_predictions builds for one day: predict is called on
\* the single latest row with its default confidence level, and the record
\* carries the literal 0.95
prediction(t, day, predicted_price, table) ==
    [symbol                |-> PRIMARY,
     prediction_timestamp  |-> t,
     target_timestamp      |-> t + day * TicksPerDay,
     predicted_price       |-> predict(<<predicted_price>>, 95)[1].predicted_price,
     confidence_lower      |-> predict(<<predicted_price>>, 95)[1].confidence_lower,
     confidence_upper      |-> predict(<<predicted_price>>, 95)[1].confidence_upper,
     confidence_level      |-> 95,
     model_name            |-> ADVANCED_NAME,
     model_version         |-> MODEL_VERSION,
     feature_version       |-> FEATURE_VERSION,
     predicted_direction   |-> direction(predicted_price, current_price(table)).label,
     direction_probability |-> direction(predicted_price, current_price(table)).probability]

\* generate_predictions with the model the service holds: no features, an
\* unfitted scaler or a missing regressor end in the except branch or the
\* early return, both returning []; predicted_price is what the regressor
\* answers for the latest feature row
generate_predictions_from_today(model, store, table, t, forecast_days, predicted_price, fetch_ok) ==
    IF fetch_latest_features(store, t, fetch_ok) = <<>> THEN <<>>
    ELSE IF model.scaler = <<>> \/ model.param = Null THEN <<>>
    ELSE [day \in 1..forecast_days |-> prediction(t, day - 1, predicted_price, table)]

generate_predictions(model, store, table, t, forecast_days, predicted_price, fetch_ok) ==
    IF fetch_latest_features(store, t, fetch_ok) = <<>> THEN <<>>
    ELSE IF model.scaler = <<>> \/ model.param = Null THEN <<>>
    ELSE [day \in 1..forecast_days |-> prediction(t, day, predicted_price, table)]

SameKey(f, g) ==
    /\ f.symbol = g.symbol
    /\ f.target_timestamp = g.target_timestamp
    /\ f.model_name = g.model_name
    /\ f.model_version = g.model_version

\* delete().eq('symbol').eq('target_timestamp').eq('model_name').eq('model_version')
delete_existing_nothing(table, pred) == table

delete_existing(table, pred) == {r \in table : ~SameKey(r, pred)}

\* the delete loop over the first k predictions
RECURSIVE DeleteExisting(_, _, _)
DeleteExisting(table, preds, k) ==
    IF k = 0 THEN table
    ELSE delete_existing(DeleteExisting(table, preds, k - 1), preds[k])

\* the row the table makes of an inserted prediction: the database assigns
\* the id and leaves the columns the insert does not name NULL
Row(pred, id) ==
    [id                    |-> id,
     symbol                |-> pred.symbol,
     prediction_timestamp  |-> pred.prediction_timestamp,
     target_timestamp      |-> pred.target_timestamp,
     predicted_price       |-> pred.predicted_price,
     confidence_lower      |-> pred.confidence_lower,
     confidence_upper      |-> pred.confidence_upper,
     confidence_level      |-> pred.confidence_level,
     model_name            |-> pred.model_name,
     model_version         |-> pred.model_version,
     feature_version       |-> pred.feature_version,
     predicted_direction   |-> pred.predicted_direction,
     direction_probability |-> pred.direction_probability,
     actual_price          |-> Null,
     prediction_error      |-> Null]

\* insert(predictions): all rows or, on an error, none
insert(table, preds, first_id) ==
    table \cup {Row(preds[i], first_id + i - 1) : i \in 1..Len(preds)}

\* store_predictions: calls_ok database calls succeed and the next one
\* raises, which is logged and answered with False
store_predictions(table, preds, first_id, calls_ok) ==
    IF preds = <<>>
    THEN [ok |-> FALSE, table |-> table, next |-> first_id]
    ELSE IF calls_ok > Len(preds)
    THEN [ok    |-> TRUE,
          table |-> insert(DeleteExisting(table, preds, Len(preds)), preds, first_id),
          next  |-> first_id + Len(preds)]
    ELSE [ok    |-> FALSE,
          table |-> DeleteExisting(table, preds, calls_ok),
          next  |-> first_id]

\* the predictions update_actual_prices selects: no actual price yet and a
\* target before the clock
Due(table, t) == {f \in table : f.actual_price = Null /\ f.target_timestamp < t}

\* the closes of the bars of the symbol on the target date of a prediction
ClosesOn(bars, f) ==
    {b.close : b \in {r \in bars : /\ r.symbol = f.symbol
                                   /\ DateOf(r.timestamp) = DateOf(f.target_timestamp)}}

\* what one pass of the loop can make of a row: price_response.data[0] is any
\* bar of the date (the query has no order), and only actual_price is
\* written; when a database call raises, the loop ends before the rows it
\* has not reached
RowOutcomes(f, table, bars, t, db_ok) ==
    IF f \in Due(table, t) /\ ClosesOn(bars, f) # {}
    THEN {[f EXCEPT !.actual_price = c] : c \in ClosesOn(bars, f)}
         \cup (IF db_ok THEN {} ELSE {f})
    ELSE {f}

RECURSIVE UpdateRows(_, _, _, _, _)
UpdateRows(rows, table, bars, t, db_ok) ==
    IF rows = {} THEN {{}}
    ELSE LET f == CHOOSE x \in rows : TRUE
         IN  {T \cup {g} : T \in UpdateRows(rows \ {f}, table, bars, t, db_ok),
                           g \in RowOutcomes(f, table, bars, t, db_ok)}

\* update_actual_prices: the tables the run can leave
update_actual_prices(table, bars, t, db_ok) == UpdateRows(table, table, bars, t, db_ok)

----------------------------------------------------------------------------
(* Specification of the prediction service: the clock, realtime ingestion   *)
(* of the current bar of the primary symbol, prediction runs (generate_predictions  *)
(* followed by store_predictions, as in run) and update_actual_prices, with *)
(* one service object as the scheduler keeps it.                            *)

PredClockLimit == MaxPredDays * TicksPerDay + 1

TrainedFiles(dumps_ok) == save_model(NoFiles, 1, <<5>>, feature_columns, dumps_ok)

InitPred ==
    /\ LoopsIdle
    /\ now = 0
    /\ market_data_raw = {}
    /\ features_store \in {{}, {ScenarioRow(0)}}
    /\ saved_models \in {NoFiles, TrainedFiles(1), TrainedFiles(3)}
    /\ predictions = {}
    /\ next_id = 1
    /\ service_model = NoModel
    /\ pred_ret = PredNotCalled
    /\ trainer_model = NoModel
    /\ data_ret = NoData
    /\ prepared_df = NoFrame
    /\ regime_df = NoRegimeRow
    /\ model_metadata = {}
    /\ train_ret = TrainNotCalled
    /\ fe_ret = FeNotCalled
    /\ seq_df = <<>>
    /\ seq_horizon = 1
    /\ seq_ret = NotCalled

PredictionStep(model, preds, stored) ==
    /\ service_model' = model
    /\ predictions' = stored.table
    /\ next_id' = stored.next
    /\ pred_ret' = [op |-> "predict", generated |-> preds, stored |-> stored.ok,
                    deleted |-> Cardinality(predictions \ stored.table)]
    /\ UNCHANGED <<loop_vars, now, market_data_raw, features_store, model_metadata,
                   saved_models, train_ret, fe_ret, seq_df, seq_horizon, seq_ret,
                   trainer_model, data_ret, prepared_df, regime_df>>

\* the model object after generate_predictions up to the scaling of the
\* latest row: prepare_features sets feature_columns again from the columns
\* of the fetched frame, scaler.transform scales the row selected by that
\* list (nothing of it is reached when no feature rows came back)
inference_model(model, df, cols) ==
    IF df = <<>> THEN model
    ELSE [model EXCEPT !.feature_columns = prepare_feature_columns(cols),
                       !.scaler = transform(model.scaler, <<Last(df).sma_5>>).scaler]

\* run up to the stored predictions, on a features_store table whose rows
\* come back with the columns cols: load the model if the service has none,
\* generate, store what was generated
PredictionRunOn(cols, forecast_days, predicted_price, fetch_ok, calls_ok) ==
    /\ next_id + forecast_days - 1 <= MaxId
    /\ calls_ok <= forecast_days + 1
    /\ \E model \in {IF service_model.created THEN service_model
                     ELSE load_model(saved_models)} :
       \E preds \in {generate_predictions(model, features_store, market_data_raw,
                        now, forecast_days, predicted_price, fetch_ok)} :
          PredictionStep(inference_model(model,
                            fetch_latest_features(features_store, now, fetch_ok), cols),
                         preds,
                         store_predictions(predictions, preds, next_id, calls_ok))

PredictionRun(forecast_days, predicted_price, fetch_ok, calls_ok) ==
    PredictionRunOn(StorageCols, forecast_days, predicted_price, fetch_ok, calls_ok)

UpdateActualPrices(db_ok) ==
    /\ \E T \in update_actual_prices(predictions, market_data_raw, now, db_ok) :
          predictions' = T
    /\ pred_ret' = [op |-> "update", generated |-> <<>>, stored |-> FALSE,
                    deleted |-> 0]
    /\ UNCHANGED <<loop_vars, now, market_data_raw, features_store, next_id, service_model,
                   model_metadata, saved_models, train_ret, fe_ret,
                   seq_df, seq_horizon, seq_ret,
                   trainer_model, data_ret, prepared_df, regime_df>>

\* what the regressor can answer: below, at or above the closes of the bars
PredictedPrices == {1, MaxClose}

\* the inputs of a prediction run (what follows a failed feature fetch is
\* never reached)
PredInputs ==
    {in \in [forecast_days : 1..MaxForecastDays, predicted_price : PredictedPrices,
             fetch_ok : BOOLEAN, calls_ok : 0..(MaxForecastDays + 1)] :
        ~in.fetch_ok => (in.predicted_price = 1 /\ in.calls_ok = 0)}

NextPred ==
    \/ Tick(PredClockLimit)
    \/ \E close \in Closes : StoreMarketData(PRIMARY, now, close)
    \/ \E in \in PredInputs :
          PredictionRun(in.forecast_days, in.predicted_price, in.fetch_ok, in.calls_ok)
    \/ \E db_ok \in BOOLEAN : UpdateActualPrices(db_ok)

SpecPred == InitPred /\ [][NextPred]_vars

(* C1: the predictions table holds one Forecast per (symbol,                *)
(* target_timestamp, model_name, model_version) after any sequence of       *)
(* prediction runs: a run that stores its forecasts leaves, for each key it *)
(* generated, exactly the new forecast (fresh id, no actual price), removes *)
(* the prior forecast of that key and keeps the forecasts of other keys.    *)
C1_OneForecastPerKey ==
    /\ [](\A f, g \in predictions : SameKey(f, g) => f = g)
    /\ [][next_id' # next_id =>
            /\ \A i \in 1..Len(pred_ret'.generated) :
                  Row(pred_ret'.generated[i], next_id + i - 1) \in predictions'
            /\ \A f \in predictions :
                  IF \E i \in 1..Len(pred_ret'.generated) :
                         SameKey(f, pred_ret'.generated[i])
                  THEN f \notin predictions'
                  ELSE f \in predictions'
            /\ \A f \in predictions' :
                  f.id < next_id => f \in predictions]_vars

C1_Witness ==
    /\ pred_ret.op = "predict" /\ pred_ret.stored /\ pred_ret.deleted > 0
    /\ Cardinality(predictions) > Len(pred_ret.generated)
    /\ \A i \in 1..Len(pred_ret.generated) :
          Cardinality({f \in predictions : SameKey(f, pred_ret.generated[i])}) = 1

(* C3: a stored Forecast changes exactly once, when the PriceBar of its     *)
(* target date is available, and the change attaches actual_price and the   *)
(* error together; no other field changes and a Forecast that has its       *)
(* actual price never changes again.                                        *)
C3_MutatedOnceWithPriceAndError ==
    [][\A f \in predictions, g \in predictions' :
          (f.id = g.id /\ f # g)
             => /\ f.actual_price = Null /\ f.prediction_error = Null
                /\ g.actual_price \in ClosesOn(market_data_raw, f)
                /\ g.prediction_error # Null
                /\ g = [f EXCEPT !.actual_price = g.actual_price,
                                 !.prediction_error = g.prediction_error]]_vars

----------------------------------------------------------------------------
(* Specification of the artifact life cycle: a training session prepares    *)
(* its data and fits (prepare_data, train), save_model writes the three     *)
(* files, a prediction service is created, loads the files on its first     *)
(* run and prepares, scales and predicts the latest feature row.  The       *)
(* features_store table answers with the columns of its schema, which is    *)
(* not part of the repository: ColumnSets are the schemas with and without  *)
(* the one column prepare_features treats as optional and the selection by  *)
(* feature_columns does not need.                                           *)

MaxRows == 3

ColumnSets == {StorageCols, StorageCols \ {"regime_classification"}}

\* the datasets create_sequences hands to prepare_data, one per length: the
\* row of day i carries the feature value i
Datasets ==
    {[i \in 1..n |-> [timestamp |-> i * TicksPerDay, x |-> i]] : n \in 1..MaxRows}

InitArt ==
    /\ LoopsIdle
    /\ now = 0
    /\ market_data_raw = {}
    /\ features_store \in {{}, {ScenarioRow(0)}}
    /\ saved_models = NoFiles
    /\ predictions = {}
    /\ next_id = 1
    /\ service_model = NoModel
    /\ pred_ret = PredNotCalled
    /\ trainer_model = NoModel
    /\ data_ret = NoData
    /\ prepared_df = NoFrame
    /\ regime_df = NoRegimeRow
    /\ model_metadata = {}
    /\ train_ret = TrainNotCalled
    /\ fe_ret = FeNotCalled
    /\ seq_df = <<>>
    /\ seq_horizon = 1
    /\ seq_ret = NotCalled

\* a training session up to the fitted model: a new AdvancedXGBoostModel,
\* prepare_features on a frame with the columns cols, prepare_data on the
\* dataset rows, train fitting the model param
Fit(cols, rows, param) ==
    LET data == prepare_data(rows)
    IN  /\ data_ret' = data
        /\ trainer_model' =
              [created |-> TRUE,
               param |-> IF data.raised THEN Null ELSE param,
               scaler |-> IF data.raised THEN <<>> ELSE data.scaler,
               feature_columns |-> prepare_feature_columns(cols)]
        /\ train_ret' = [TrainNotCalled EXCEPT
                            !.pipeline = "advanced",
                            !.outcome = IF data.raised THEN "raised" ELSE "fitted"]
        /\ UNCHANGED <<loop_vars, now, market_data_raw, features_store, predictions, next_id,
                       service_model, model_metadata, saved_models, pred_ret,
                       fe_ret, seq_df, seq_horizon, seq_ret, prepared_df, regime_df>>

\* save_model of the fitted session
SaveModel(dumps_ok) ==
    /\ train_ret.outcome = "fitted"
    /\ saved_models' = save_model(saved_models, trainer_model.param,
                                  trainer_model.scaler,
                                  trainer_model.feature_columns, dumps_ok)
    /\ train_ret' = [train_ret EXCEPT !.outcome = "saved"]
    /\ UNCHANGED <<loop_vars, now, market_data_raw, features_store, predictions, next_id,
                   service_model, model_metadata, pred_ret, fe_ret, seq_df,
                   seq_horizon, seq_ret, trainer_model, data_ret, prepared_df,
                   regime_df>>

\* run_prediction_service / the scheduler make a new PredictionService
NewService ==
    /\ service_model.created
    /\ service_model' = NoModel
    /\ UNCHANGED <<loop_vars, now, market_data_raw, features_store, predictions, next_id,
                   model_metadata, saved_models, train_ret, pred_ret, fe_ret,
                   seq_df, seq_horizon, seq_ret, trainer_model, data_ret,
                   prepared_df, regime_df>>

NextArt ==
    \/ \E cols \in ColumnSets, rows \in Datasets, param \in 1..MaxParam :
          Fit(cols, rows, param)
    \/ \E dumps_ok \in 0..3 : SaveModel(dumps_ok)
    \/ NewService
    \/ \E cols \in ColumnSets : PredictionRunOn(cols, 1, 1, TRUE, 2)

SpecArt == InitArt /\ [][NextArt]_vars

\* a step in which the service gets its model object: the load of the first
\* run of a new service
ServiceLoads == ~service_model.created /\ service_model'.created

(* C11: at inference the feature vector is selected and ordered by the     *)
(* feature-column list of the loaded artifact: whatever columns the fetched *)
(* rows have, the list the service's model holds after a run is the list    *)
(* that load_model read from the features file.                             *)
C11_InferenceUsesStoredColumns ==
    [][(ServiceLoads /\ load_model(saved_models).feature_columns # <<>>)
          => service_model'.feature_columns
                = load_model(saved_models).feature_columns]_vars

(* C19: the scaler's parameters are those fit on the train partition in   *)
(* prepare_data: transforming the validation partition leaves them as fit,  *)
(* and a prediction run leaves the scaler of the service's model as it was  *)
(* (as loaded, on the run that loads it).                                   *)
C19_ScalerFitOnTrainOnly ==
    /\ [](train_ret.outcome \in {"fitted", "saved"}
            => trainer_model.scaler
                  = [i \in 1..Len(data_ret.train) |-> data_ret.train[i].x])
    /\ [][service_model'.created
            => service_model'.scaler
                  = IF service_model.created THEN service_model.scaler
                    ELSE load_model(saved_models).scaler]_vars

C19_Witness ==
    /\ train_ret.outcome = "saved"
    /\ Len(data_ret.train) > 0 /\ Len(data_ret.val) > 0
    /\ service_model.created
    /\ service_model.scaler = trainer_model.scaler
    /\ pred_ret.generated # <<>>

----------------------------------------------------------------------------
(* Specification of the regime of a row: classify_regime on a row with any  *)
(* moving averages and volatilities (undefined ones included), the row as   *)
(* the feature engineer stores it, and prepare_features on the stored row   *)
(* as the model fetches it.  The inputs are window sums as everywhere: a    *)
(* moving average over w closes is w times a mean of SmaMeans.              *)

SmaMeans == {100, 101, 102, 103}
Volatilities == {2, 3, 4}
VolatilityMeans == {2}

RegimeRows ==
    [sma_5 : {Null} \cup {5 * m : m \in SmaMeans},
     sma_20 : {Null} \cup {20 * m : m \in SmaMeans},
     sma_50 : {Null} \cup {50 * m : m \in SmaMeans},
     volatility_20d : {Null} \cup Volatilities,
     volatility_mean_50 : {Null} \cup VolatilityMeans]

InitRegime ==
    /\ LoopsIdle
    /\ regime_df \in RegimeRows
    /\ now = 0
    /\ market_data_raw = {}
    /\ features_store = {}
    /\ saved_models = NoFiles
    /\ predictions = {}
    /\ next_id = 1
    /\ service_model = NoModel
    /\ pred_ret = PredNotCalled
    /\ trainer_model = NoModel
    /\ data_ret = NoData
    /\ prepared_df = NoFrame
    /\ model_metadata = {}
    /\ train_ret = TrainNotCalled
    /\ fe_ret = FeNotCalled
    /\ seq_df = <<>>
    /\ seq_horizon = 1
    /\ seq_ret = NotCalled

\* the row of the frame after classify_regime, with the columns the model
\* keeps of it
ClassifiedRow(in) ==
    [symbol |-> PRIMARY, timestamp |-> 0, feature_version |-> FEATURE_VERSION,
     sma_5 |-> in.sma_5, sma_20 |-> in.sma_20, sma_50 |-> in.sma_50,
     returns_1d |-> Null, volatility_20d |-> in.volatility_20d,
     correlation_nifty_bank |-> Null, correlation_banking_peers |-> Null,
     relative_strength_sector |-> Null,
     regime_classification |->
         classify_regime(in.sma_5, in.sma_20, in.sma_50,
                         in.volatility_20d, in.volatility_mean_50),
     trend_strength |-> trend_strength(in.sma_5, in.sma_50)]

\* classify_regime on the row, which store_features then upserts
ClassifyRegime ==
    /\ features_store = {}
    /\ features_store' = UpsertFeatures(features_store, StorageCols,
                                        <<ClassifiedRow(regime_df)>>)
    /\ UNCHANGED <<loop_vars, now, market_data_raw, predictions, next_id, service_model,
                   model_metadata, saved_models, train_ret, pred_ret, fe_ret,
                   seq_df, seq_horizon, seq_ret, trainer_model, data_ret,
                   prepared_df, regime_df>>

\* fetch_training_data and prepare_features on what the store holds
PrepareFeatures ==
    /\ features_store # {}
    /\ prepared_df' =
          [feature_columns |-> prepare_feature_columns(StorageCols),
           rows |-> prepare_features(
                       fetch_training_data(features_store, PRIMARY, 730, now))]
    /\ UNCHANGED <<loop_vars, now, market_data_raw, features_store, predictions, next_id,
                   service_model, model_metadata, saved_models, train_ret,
                   pred_ret, fe_ret, seq_df, seq_horizon, seq_ret,
                   trainer_model, data_ret, regime_df>>

NextRegime == ClassifyRegime \/ PrepareFeatures

SpecRegime == InitRegime /\ [][NextRegime]_vars

(* C12: every row prepare_features hands to the model has the four regime   *)
(* one-hot columns regime_trending_up, regime_trending_down,                *)
(* regime_high_volatility and regime_ranging in the feature-column list,    *)
(* and their values in the row sum to exactly 1.                            *)
C12_RegimeOneHot ==
    \A i \in 1..Len(prepared_df.rows) :
        /\ {"regime_trending_up", "regime_trending_down",
            "regime_high_volatility", "regime_ranging"}
              \subseteq SeqRange(prepared_df.feature_columns)
        /\ prepared_df.rows[i].regime_trending_up
             + prepared_df.rows[i].regime_trending_down
             + prepared_df.rows[i].regime_high_volatility
             + prepared_df.rows[i].regime_ranging = 1

C12_Witness ==
    /\ Len(prepared_df.rows) = 1
    /\ prepared_df.rows[1].regime_trending_down = 1
    /\ prepared_df.rows[1].regime_ranging = 0
    /\ \E r \in features_store : r.regime_classification = "trending_down"

\* the conditions of classify_regime on the row regime_df, from the means:
\* mean5 = sma_5 / 5, mean20 = sma_20 / 20, mean50 = sma_50 / 50
SmasDefined ==
    regime_df.sma_5 # Null /\ regime_df.sma_20 # Null /\ regime_df.sma_50 # Null

TrendUp ==
    /\ SmasDefined
    /\ 4 * regime_df.sma_5 > regime_df.sma_20
    /\ 5 * regime_df.sma_20 > 2 * regime_df.sma_50

TrendDown ==
    /\ SmasDefined
    /\ 4 * regime_df.sma_5 < regime_df.sma_20
    /\ 5 * regime_df.sma_20 < 2 * regime_df.sma_50

\* trend_strength > 0.02, that is |mean5 - mean50| > mean50 / 50
StrongTrend ==
    /\ SmasDefined
    /\ \/ 50 * (10 * regime_df.sma_5 - regime_df.sma_50) > regime_df.sma_50
       \/ 50 * (regime_df.sma_50 - 10 * regime_df.sma_5) > regime_df.sma_50

\* volatility_20d > 1.5 times its 50-row mean
HighVolatility ==
    /\ regime_df.volatility_20d # Null /\ regime_df.volatility_mean_50 # Null
    /\ 2 * regime_df.volatility_20d > 3 * regime_df.volatility_mean_50

(* C20: classify_regime labels a row with the first regime that matches in *)
(* the order trending_up, trending_down, high_volatility, ranging: a trend  *)
(* with trend_strength > 0.02 wins over high volatility, and a row that     *)
(* matches nothing (undefined averages or volatility included) is ranging.  *)
C20_FirstMatchingRegime ==
    \A r \in features_store :
        r.regime_classification =
            IF TrendUp /\ StrongTrend THEN "trending_up"
            ELSE IF TrendDown /\ StrongTrend THEN "trending_down"
            ELSE IF HighVolatility THEN "high_volatility"
            ELSE "ranging"

C20_Witness ==
    /\ TrendUp /\ StrongTrend /\ HighVolatility
    /\ \E r \in features_store : r.regime_classification = "trending_up"

----------------------------------------------------------------------------
(* Specification of the direction of a forecast: prediction runs of a       *)
(* service with a trained model on price tables whose latest close is       *)
(* 10.00 or 1500.00 (in paise), with predicted prices below, on and above   *)
(* both edges of the dead band of each.                                     *)

DirCloses == {1000, 150000}
DirPredicted ==
    {998, 999, 1000, 1001, 1002, 149849, 149850, 150000, 150150, 150151, 150300}

DirTables ==
    {{[symbol |-> PRIMARY, timestamp |-> 0, close |-> c0]} : c0 \in DirCloses}
    \cup {{[symbol |-> PRIMARY, timestamp |-> 0, close |-> c0],
           [symbol |-> PRIMARY, timestamp |-> 1, close |-> c1]} :
             c0 \in DirCloses, c1 \in DirCloses}

InitDir ==
    /\ LoopsIdle
    /\ now = 1
    /\ market_data_raw \in DirTables
    /\ features_store = {ScenarioRow(0)}
    /\ saved_models = TrainedFiles(3)
    /\ predictions = {}
    /\ next_id = 1
    /\ service_model = NoModel
    /\ pred_ret = PredNotCalled
    /\ trainer_model = NoModel
    /\ data_ret = NoData
    /\ prepared_df = NoFrame
    /\ regime_df = NoRegimeRow
    /\ model_metadata = {}
    /\ train_ret = TrainNotCalled
    /\ fe_ret = FeNotCalled
    /\ seq_df = <<>>
    /\ seq_horizon = 1
    /\ seq_ret = NotCalled

NextDir ==
    \E forecast_days \in 1..MaxForecastDays, predicted_price \in DirPredicted :
        PredictionRun(forecast_days, predicted_price, TRUE, forecast_days + 1)

SpecDir == InitDir /\ [][NextDir]_vars

\* the close of the bar with the latest timestamp
LatestClose ==
    (CHOOSE b \in market_data_raw :
        \A o \in market_data_raw : o.timestamp <= b.timestamp).close

(* C13: with p the predicted price and c > 0 the latest known close, a      *)
(* forecast is UP with probability 0.65 when p > c * 1.001, DOWN with       *)
(* probability 0.65 when p < c * 0.999 and NEUTRAL with probability 0.5     *)
(* otherwise.                                                               *)
C13_DirectionDeadBand ==
    \A f \in predictions :
        /\ (f.predicted_price - LatestClose) * 1000 > LatestClose
              => f.predicted_direction = "UP" /\ f.direction_probability = 65
        /\ (LatestClose - f.predicted_price) * 1000 > LatestClose
              => f.predicted_direction = "DOWN" /\ f.direction_probability = 65
        /\ (/\ (f.predicted_price - LatestClose) * 1000 <= LatestClose
            /\ (LatestClose - f.predicted_price) * 1000 <= LatestClose)
              => f.predicted_direction = "NEUTRAL" /\ f.direction_probability = 50

C13_Witness ==
    /\ LatestClose = 150000
    /\ \E f \in predictions : /\ f.predicted_price = 150300
                              /\ f.predicted_direction = "UP"
                              /\ f.direction_probability = 65
    /\ \E f \in predictions : /\ f.predicted_price = 150150
                              /\ f.predicted_direction = "NEUTRAL"
                              /\ f.direction_probability = 50

(* C14: every Forecast generate_predictions emits has predicted_direction   *)
(* in {UP, DOWN, NEUTRAL} and a numeric direction_probability, whatever the *)
(* price store holds (no price of the symbol included).                     *)
C14_DirectionAlwaysSet ==
    /\ \A i \in 1..Len(pred_ret.generated) :
          /\ pred_ret.generated[i].predicted_direction \in {"UP", "DOWN", "NEUTRAL"}
          /\ pred_ret.generated[i].direction_probability # Null
    /\ \A f \in predictions :
          /\ f.predicted_direction \in {"UP", "DOWN", "NEUTRAL"}
          /\ f.direction_probability # Null

(* C15: a ModelArtifact is never modified after it is trained: a training   *)
(* run leaves every artifact file written by an earlier run, and every      *)
(* registry record of an earlier run, as they were.                         *)
C15_TrainedArtifactImmutable ==
    [][/\ \A p \in Paths : saved_models[p].state = "ok"
                              => saved_models'[p] = saved_models[p]
       /\ model_metadata \subseteq model_metadata']_vars

(* C16: whenever save_model returns normally, load_model on the same three  *)
(* paths yields a model, a scaler and a feature-column list equal to the    *)
(* ones that were saved.                                                    *)
C16_SaveLoadRoundTrip ==
    [][(train_ret.outcome = "fitted" /\ train_ret'.outcome = "saved")
          => load_model(saved_models') = trainer_model]_vars

(* C17: the feature store holds a FeatureRow only for a timestamp whose     *)
(* window of price bars is complete for every windowed feature: no stored   *)
(* row has an undefined sma_5, sma_20, sma_50, returns_1d or volatility_20d.*)
C17_OnlyCompleteWindowsStored ==
    \A r \in features_store :
        /\ r.sma_5 # Null /\ r.sma_20 # Null /\ r.sma_50 # Null
        /\ r.returns_1d # Null /\ r.volatility_20d # Null

----------------------------------------------------------------------------
(* Specification of the rising series: market_data_raw holds TrendBars      *)
(* daily bars of the symbol whose close rises by one unit a day from a      *)
(* starting close, and engineer_features runs on them (with and without a   *)
(* failing price query, with and without the store accepting the batch).    *)

TrendBars == 100

TrendStarts == (1..12) \cup {100, 500, 1000, 1050, 1051, 1100, 1101, 1500}

RisingBars(start) ==
    {[symbol |-> PRIMARY, timestamp |-> day * TicksPerDay, close |-> start + day] :
        day \in 0..(TrendBars - 1)}

InitTrend ==
    /\ LoopsIdle
    /\ now = (TrendBars - 1) * TicksPerDay
    /\ market_data_raw \in {RisingBars(start) : start \in TrendStarts}
    /\ features_store = {}
    /\ fe_ret = FeNotCalled
    /\ predictions = {}
    /\ next_id = 1
    /\ service_model = NoModel
    /\ model_metadata = {}
    /\ saved_models = NoFiles
    /\ train_ret = TrainNotCalled
    /\ pred_ret = PredNotCalled
    /\ trainer_model = NoModel
    /\ data_ret = NoData
    /\ prepared_df = NoFrame
    /\ regime_df = NoRegimeRow
    /\ seq_df = <<>>
    /\ seq_horizon = 1
    /\ seq_ret = NotCalled

NextTrend ==
    \E batches_ok \in 0..1, failed \in {{}, {PRIMARY}, {SECTOR_INDEX}} :
        EngineerFeatures(365, failed, batches_ok)

SpecTrend == InitTrend /\ [][NextTrend]_vars

\* the bar a stored feature row was computed for
BarOf(row) ==
    CHOOSE b \in market_data_raw : b.symbol = row.symbol /\ b.timestamp = row.timestamp

\* the position of a row in the series (the first bar is row 1)
RowNumber(row) == DateOf(row.timestamp) + 1

(* C21: for TrendBars daily bars whose close rises by one unit a day, from  *)
(* every positive starting close, every row from the 50th on is classified  *)
(* trending_up.                                                             *)
C21_RisingSeriesTrendingUp ==
    \A row \in features_store :
        RowNumber(row) >= 50 => row.regime_classification = "trending_up"

(* C21 as the code has it: a row from the 50th on is classified trending_up *)
(* exactly when its close is at most 1149, that is while the distance of    *)
(* 22.5 between SMA5 and SMA50 is more than 2% of SMA50; all rows from the  *)
(* 50th to the 100th are trending_up for starting closes up to 1050.        *)
C21_RisingSeriesTrendingUpWhileStrong ==
    \A row \in features_store :
        RowNumber(row) >= 50 =>
            (row.regime_classification = "trending_up" <=> BarOf(row).close <= 1149)

C21_Witness ==
    /\ \E row \in features_store :
          /\ RowNumber(row) = 50 /\ BarOf(row).close = 1149
          /\ row.regime_classification = "trending_up"
    /\ \E row \in features_store :
          /\ RowNumber(row) = 51 /\ BarOf(row).close = 1150
          /\ row.regime_classification = "ranging"

(* C22: a failure of validate aborts the run of train_advanced_model and is *)
(* surfaced to the caller: a run whose validation metrics could not be      *)
(* computed ends with an exception, save_model and save_metadata do not     *)
(* run, so the artifact files and the registry stay as they were.  (A run   *)
(* whose validate failed is one whose metrics carry val_rmse 0, the value   *)
(* save_metadata reads from the empty dict; a computed val_rmse is positive *)
(* in the model.)                                                           *)
C22_ValidateFailureAborts ==
    [][(/\ TrainRan
        /\ train_ret'.pipeline = "advanced"
        /\ train_ret'.metadata.val_rmse = 0)
          => /\ train_ret'.outcome = "raised"
             /\ saved_models' = saved_models
             /\ model_metadata' = model_metadata]_vars

\* the service has, or will load, a fitted regressor and scaler
ModelReady ==
    LET model == IF service_model.created THEN service_model
                 ELSE load_model(saved_models)
    IN  model.param # Null /\ model.scaler # <<>>

FeaturesAvailable == fetch_latest_features(features_store, now, TRUE) # <<>>

----------------------------------------------------------------------------
(* AdvancedXGBoostModel.predict called directly, on a frame of one or more  *)
(* rows and with a requested confidence level                               *)

MaxBatch == 3
BatchAnswers == {1000, 1010, 1030, 1100, 1200}
ConfidenceLevels == {90, 95, 99}

InitInterval ==
    /\ LoopsIdle
    /\ now = 1
    /\ market_data_raw = {}
    /\ features_store = {}
    /\ saved_models = TrainedFiles(3)
    /\ predictions = {}
    /\ next_id = 1
    /\ service_model \in {load_model(NoFiles), load_model(TrainedFiles(3))}
    /\ pred_ret = PredNotCalled
    /\ trainer_model = NoModel
    /\ data_ret = NoData
    /\ prepared_df = NoFrame
    /\ regime_df = NoRegimeRow
    /\ model_metadata = {}
    /\ train_ret = TrainNotCalled
    /\ fe_ret = FeNotCalled
    /\ seq_df = <<>>
    /\ seq_horizon = 1
    /\ seq_ret = NotCalled

\* predict(X, confidence_level): y_hat is what the regressor answers for the
\* rows of X; without a regressor self.model.predict raises and the except
\* branch returns an empty frame.  One call is followed: predict keeps no
\* state, so a second call starts from where the first one did
ModelPredict(y_hat, confidence_level) ==
    /\ pred_ret.op = "none"
    /\ pred_ret' = [op        |-> "model_predict",
                    generated |-> IF service_model.param = Null THEN <<>>
                                  ELSE predict(y_hat, confidence_level),
                    stored    |-> FALSE,
                    deleted   |-> 0]
    /\ UNCHANGED <<loop_vars, now, market_data_raw, features_store, predictions, next_id,
                   saved_models, service_model, trainer_model, data_ret,
                   prepared_df, regime_df, model_metadata, train_ret, fe_ret,
                   seq_df, seq_horizon, seq_ret>>

NextInterval ==
    \E n \in 1..MaxBatch :
        \E y_hat \in [1..n -> BatchAnswers], confidence_level \in ConfidenceLevels :
            ModelPredict(y_hat, confidence_level)

SpecInterval == InitInterval /\ [][NextInterval]_vars

\* the two-sided standard normal quantile of a confidence level, in
\* thousandths: 1.645 for 90%, 1.960 for 95%, 2.576 for 99%
ZOfLevel(confidence_level) ==
    CASE confidence_level = 90 -> 1645
      [] confidence_level = 95 -> 1960
      [] confidence_level = 99 -> 2576

(* C24: the bounds predict returns lie symmetrically around the predicted   *)
(* price, at a distance of z times the estimated standard error, where z is *)
(* the quantile of the confidence level that was requested.                 *)
C24_IntervalAtRequestedLevel ==
    [][\A n \in 1..MaxBatch :
         \A y_hat \in [1..n -> BatchAnswers], confidence_level \in ConfidenceLevels :
            (service_model.param # Null /\ ModelPredict(y_hat, confidence_level))
               => \A i \in 1..n :
                     /\ pred_ret'.generated[i].predicted_price = y_hat[i]
                     /\ pred_ret'.generated[i].confidence_lower
                           = y_hat[i] - interval_half_width(y_hat, ZOfLevel(confidence_level))
                     /\ pred_ret'.generated[i].confidence_upper
                           = y_hat[i] + interval_half_width(y_hat, ZOfLevel(confidence_level))]_vars

(* C27: generate_predictions has the model predict a single row, whose      *)
(* standard deviation is zero, so every forecast it builds, and every       *)
(* forecast that reaches the predictions table, has confidence_lower =      *)
(* predicted_price = confidence_upper.                                      *)
C27_DegenerateInterval ==
    /\ pred_ret.op = "predict" =>
          \A i \in 1..Len(pred_ret.generated) :
             /\ pred_ret.generated[i].confidence_lower
                   = pred_ret.generated[i].predicted_price
             /\ pred_ret.generated[i].confidence_upper
                   = pred_ret.generated[i].predicted_price
    /\ \A f \in predictions :
          f.confidence_lower = f.predicted_price /\ f.confidence_upper = f.predicted_price

C27_Witness ==
    /\ pred_ret.op = "predict"
    /\ Len(pred_ret.generated) = MaxForecastDays
    /\ pred_ret.stored
    /\ \E f \in predictions :
          /\ f.predicted_price = 150300
          /\ f.confidence_lower = 150300
          /\ f.confidence_upper = 150300

(* C25: when store_predictions returns False (the list was empty, or a     *)
(* step of the delete-then-insert raised), the predictions table holds      *)
(* exactly what it held before the call: no stored forecast is lost.        *)
C25_FailedStoreKeepsTable ==
    (pred_ret.op = "predict" /\ ~pred_ret.stored) => pred_ret.deleted = 0

(* C26: one run of update_actual_prices gives every forecast whose target   *)
(* has passed, whose actual_price is null and whose target date has a       *)
(* PriceBar of its symbol the close of that date as actual_price, and       *)
(* changes nothing else: a forecast whose target is ahead, whose            *)
(* actual_price is set or whose target date has no PriceBar is left as it   *)
(* is.                                                                      *)
C26_EveryDueForecastFilled ==
    [][(\E db_ok \in BOOLEAN : UpdateActualPrices(db_ok))
          => /\ \A g \in predictions' : \E f \in predictions : f.id = g.id
             /\ \A f \in predictions :
                   IF f \in Due(predictions, now) /\ ClosesOn(market_data_raw, f) # {}
                   THEN \E c \in ClosesOn(market_data_raw, f) :
                           /\ ClosesOn(market_data_raw, f) = {c}
                           /\ [f EXCEPT !.actual_price = c] \in predictions'
                   ELSE f \in predictions']_vars

----------------------------------------------------------------------------
(* The pagination loop of create_sequences, one request per step, over      *)
(* price tables whose sizes lie around the multiples of the page size       *)

MaxPages == 2
NearPage == 7

PageTableSizes ==
    {n \in 0..(MaxPages * range_size + NearPage) :
        \E k \in 0..MaxPages : /\ n >= k * range_size - NearPage
                               /\ n <= k * range_size + NearPage}

\* n daily bars of the primary symbol and, among them, one of the sector index
PagedBars(n) ==
    {[symbol |-> PRIMARY, timestamp |-> i * TicksPerDay, close |-> 1 + (i % MaxClose)] :
        i \in 0..(n - 1)}
    \cup {[symbol |-> SECTOR_INDEX, timestamp |-> 0, close |-> 1]}

InitPage ==
    /\ RetryIdle
    /\ SchedIdle
    /\ market_data_raw \in {PagedBars(n) : n \in PageTableSizes}
    /\ price_index = PriceRows(market_data_raw, PRIMARY)
    /\ range_start = 0
    /\ all_prices = <<>>
    /\ page_pc = "loop"
    /\ seq_df = <<>>
    /\ seq_horizon = 1
    /\ seq_ret = NotCalled
    /\ IdleRest

\* .range(range_start, range_start + range_size - 1): both ends inclusive,
\* counted from 0 over the ordered rows
range_inclusive_of_next(rows, start) ==
    SubSeq(rows, start + 1, Min(start + range_size + 1, Len(rows)))

range(rows, start) ==
    SubSeq(rows, start + 1, Min(start + range_size, Len(rows)))

\* one pass of the while True loop; the table does not change while the loop
\* runs, so every request is answered from the same ordered rows
FetchPage ==
    /\ page_pc = "loop"
    /\ \E page \in {range(price_index, range_start)} :
          IF page = <<>>
          THEN /\ page_pc' = "done"
               /\ UNCHANGED <<range_start, all_prices>>
          ELSE /\ all_prices' = all_prices \o page
               /\ IF Len(page) < range_size
                  THEN page_pc' = "done" /\ UNCHANGED range_start
                  ELSE page_pc' = "loop" /\ range_start' = range_start + range_size
    /\ UNCHANGED <<now, market_data_raw, price_index, features_store, predictions,
                   next_id, service_model, model_metadata, saved_models,
                   train_ret, pred_ret, fe_ret, seq_df, seq_horizon, seq_ret,
                   trainer_model, data_ret, prepared_df, regime_df, retry_vars,
                   sched_vars>>

NextPage == FetchPage

SpecPage == InitPage /\ [][NextPage]_vars

\* the loop is a sequential program: it takes its next step
SpecPageFair == SpecPage /\ WF_vars(FetchPage)

(* C28: the pagination loop ends for every price table, and when it has     *)
(* ended all_prices holds every price record of the symbol exactly once, in *)
(* timestamp order, whether the table is empty, holds an exact multiple of  *)
(* the page size or anything around it.                                     *)
C28_PaginationCollectsAll ==
    /\ <>(page_pc = "done")
    /\ [](page_pc = "done" =>
            /\ Len(all_prices)
                  = Cardinality({b \in market_data_raw : b.symbol = PRIMARY})
            /\ \A i \in 1..Len(all_prices) :
                  \E b \in market_data_raw :
                     /\ b.symbol = PRIMARY
                     /\ b.timestamp = all_prices[i].timestamp
                     /\ b.close = all_prices[i].close
            /\ \A i \in 1..(Len(all_prices) - 1) :
                  all_prices[i].timestamp < all_prices[i + 1].timestamp
            /\ all_prices = FetchAllPrices(PriceRows(market_data_raw, PRIMARY),
                                           0, range_size))

C28_Witness ==
    /\ page_pc = "done"
    /\ range_start = MaxPages * range_size
    /\ Len(all_prices) = MaxPages * range_size

----------------------------------------------------------------------------
(* HistoricalDataBootstrap.fetch_historical_data(symbol, max_retries), one  *)
(* yf.download call per step: every call can raise, return None, an empty   *)
(* frame or a frame with rows, and the processing of a fetched frame can    *)
(* raise too                                                                *)

MaxRetries == 3
MaxFetched == 2

InitRetry ==
    /\ PageIdle
    /\ SchedIdle
    /\ hist_symbol \in {PRIMARY, SECTOR_INDEX} \cup PEERS
    /\ max_retries \in 0..MaxRetries
    /\ attempt = 0
    /\ download_calls = 0
    /\ hist_df = Unbound
    /\ hist_ret = Unbound
    /\ hist_pc = "loop"
    /\ market_data_raw = {}
    /\ seq_df = <<>>
    /\ seq_horizon = 1
    /\ seq_ret = NotCalled
    /\ IdleRest

\* what yf.download can answer
DownloadResults == {NoneValue} \cup {Frame(n) : n \in 0..MaxFetched}

\* df is None or df.empty
no_data(df) == df.state = "none" \/ df.rows = 0

\* a retry loop that goes on after the last attempt
retry_always(a, retries) == a < retries

\* if attempt < max_retries - 1, in both branches
retry(a, retries) == a < retries - 1

\* the end of a failed attempt: sleep and continue, or return None
FailedAttempt ==
    IF retry(attempt, max_retries)
    THEN /\ attempt' = attempt + 1
         /\ UNCHANGED <<hist_ret, hist_pc>>
    ELSE /\ hist_ret' = NoneValue
         /\ hist_pc' = "returned"
         /\ UNCHANGED attempt

\* one pass of the for loop: yf.download raises, or answers result
Download(result, raises) ==
    /\ hist_pc = "loop"
    /\ attempt < max_retries
    /\ download_calls' = download_calls + 1
    /\ IF raises
       THEN UNCHANGED hist_df /\ FailedAttempt
       ELSE /\ hist_df' = result
            /\ IF no_data(result)
               THEN FailedAttempt
               ELSE /\ hist_pc' = "process"
                    /\ UNCHANGED <<attempt, hist_ret>>
    /\ UNCHANGED <<now, market_data_raw, features_store, predictions, next_id,
                   service_model, model_metadata, saved_models, train_ret,
                   pred_ret, fe_ret, seq_df, seq_horizon, seq_ret,
                   trainer_model, data_ret, prepared_df, regime_df, page_vars,
                   sched_vars,
                   hist_symbol, max_retries>>

\* range(max_retries) is used up without a return or a break
LoopExhausted ==
    /\ hist_pc = "loop"
    /\ attempt >= max_retries
    /\ hist_pc' = "process"
    /\ UNCHANGED <<now, market_data_raw, features_store, predictions, next_id,
                   service_model, model_metadata, saved_models, train_ret,
                   pred_ret, fe_ret, seq_df, seq_horizon, seq_ret,
                   trainer_model, data_ret, prepared_df, regime_df, page_vars,
                   sched_vars,
                   hist_symbol, max_retries, attempt, download_calls, hist_df,
                   hist_ret>>

\* the second try block: renaming and converting the columns keeps the rows;
\* an unbound or None df raises at df.columns, and every exception is
\* answered with None
Process(ok) ==
    /\ hist_pc = "process"
    /\ hist_ret' = IF hist_df.state = "frame" /\ ok THEN hist_df ELSE NoneValue
    /\ hist_pc' = "returned"
    /\ UNCHANGED <<now, market_data_raw, features_store, predictions, next_id,
                   service_model, model_metadata, saved_models, train_ret,
                   pred_ret, fe_ret, seq_df, seq_horizon, seq_ret,
                   trainer_model, data_ret, prepared_df, regime_df, page_vars,
                   sched_vars,
                   hist_symbol, max_retries, attempt, download_calls, hist_df>>

NextRetry ==
    \/ \E result \in DownloadResults, raises \in BOOLEAN : Download(result, raises)
    \/ LoopExhausted
    \/ \E ok \in BOOLEAN : Process(ok)

SpecRetry == InitRetry /\ [][NextRetry]_vars

\* the function is a sequential program: it takes its next step
SpecRetryFair == SpecRetry /\ WF_vars(NextRetry)

(* C29: fetch_historical_data calls yf.download at most max_retries times   *)
(* and always returns; it makes no further call after one that answered     *)
(* with rows; when it returns after max_retries calls that raised or        *)
(* answered nothing, it returns None; and what it returns is None or a      *)
(* frame with rows, never an empty frame.                                   *)
C29_BoundedRetries ==
    /\ [](download_calls <= max_retries)
    /\ <>(hist_pc = "returned")
    /\ [][(hist_df.state = "frame" /\ hist_df.rows > 0)
             => download_calls' = download_calls]_vars
    /\ [](hist_pc = "returned" =>
            /\ hist_ret.state \in {"none", "frame"}
            /\ hist_ret.state = "frame" => hist_ret.rows > 0
            /\ no_data(hist_df) \/ hist_df = Unbound
                  => hist_ret = NoneValue /\ download_calls = max_retries)

C29_Witness ==
    /\ hist_pc = "returned"
    /\ max_retries = MaxRetries
    /\ download_calls = MaxRetries
    /\ hist_df = Frame(0)
    /\ hist_ret = NoneValue

----------------------------------------------------------------------------
(* SchedulerService.run: the six registrations, the three initial calls and *)
(* the loop of run_pending and sleep.  The clock of the scheduler counts    *)
(* half hours; a job takes less than one of them or about one.  The         *)
(* schedule package runs, in one run_pending pass, the jobs that are due    *)
(* when the pass starts, ordered by next_run (jobs due at the same time in  *)
(* the order of their registration), and sets the next_run of a job when    *)
(* the job has returned: the next 10:30 / 11:00 / 11:30 for a daily job,    *)
(* six hours after the return for a 6-hourly job.                           *)

HalfHoursPerDay == 48
JobTicks == {0, 1}

\* the registrations of lines 59-70, in their order
Registered ==
    <<[job_func |-> "job_ingest_data",          group |-> "daily", at |-> 21],
      [job_func |-> "job_engineer_features",    group |-> "daily", at |-> 22],
      [job_func |-> "job_generate_predictions", group |-> "daily", at |-> 23],
      [job_func |-> "job_ingest_data",          group |-> "hours", at |-> 0],
      [job_func |-> "job_engineer_features",    group |-> "hours", at |-> 0],
      [job_func |-> "job_generate_predictions", group |-> "hours", at |-> 0]>>

\* every(6).hours, in half hours
HoursInterval == 12

\* the initial calls of lines 79-81, in their order
InitialCalls == <<"job_ingest_data", "job_engineer_features", "job_generate_predictions">>

\* the half hours until a daily job is next due, at a time of day
UntilAt(at, time_of_day) ==
    ((at - time_of_day - 1 + HalfHoursPerDay) % HalfHoursPerDay) + 1

\* time passing
Elapse(due, ticks) == [j \in DOMAIN due |-> due[j] - ticks]

\* sorted(runnable_jobs): by next_run, then by registration
RECURSIVE SortedJobs(_, _)
SortedJobs(S, due) ==
    IF S = {} THEN <<>>
    ELSE LET j == CHOOSE x \in S :
                     \A y \in S : due[x] < due[y] \/ (due[x] = due[y] /\ x <= y)
         IN  <<j>> \o SortedJobs(S \ {j}, due)

InitSched ==
    /\ PageIdle
    /\ RetryIdle
    /\ sched_pc = "run"
    /\ next_run = <<>>
    /\ runnable_jobs = <<>>
    /\ last_job = [g \in {"initial", "daily", "hours"} |-> "none"]
    /\ job_failed = FALSE
    /\ market_data_raw = {}
    /\ seq_df = <<>>
    /\ seq_horizon = 1
    /\ seq_ret = NotCalled
    /\ IdleRest

SchedRest ==
    UNCHANGED <<now, market_data_raw, features_store, predictions, next_id,
                service_model, model_metadata, saved_models, train_ret,
                pred_ret, fe_ret, seq_df, seq_horizon, seq_ret, trainer_model,
                data_ret, prepared_df, regime_df, page_vars, retry_vars>>

\* lines 59-70, at a time of day
RegisterJobs(time_of_day) ==
    /\ sched_pc = "run"
    /\ next_run' = [j \in 1..Len(Registered) |->
                       IF Registered[j].group = "daily"
                       THEN UntilAt(Registered[j].at, time_of_day)
                       ELSE HoursInterval]
    /\ sched_pc' = "initial"
    /\ UNCHANGED <<runnable_jobs, last_job, job_failed>>
    /\ SchedRest

\* the job that follows a job in the order of the pipeline
NextCall(job_func) ==
    CASE job_func = "none"                     -> "job_ingest_data"
      [] job_func = "job_ingest_data"          -> "job_engineer_features"
      [] job_func = "job_engineer_features"    -> "job_generate_predictions"
      [] job_func = "job_generate_predictions" -> "job_ingest_data"

\* lines 79-81: the next initial call; the job catches what it raises
\* (ok = FALSE) and returns
InitialJob(ok, ticks) ==
    /\ sched_pc = "initial"
    /\ last_job' = [last_job EXCEPT !["initial"] = NextCall(last_job["initial"])]
    /\ job_failed' = ~ok
    /\ next_run' = Elapse(next_run, ticks)
    /\ sched_pc' = IF last_job'["initial"] = InitialCalls[Len(InitialCalls)]
                   THEN "run_pending" ELSE "initial"
    /\ UNCHANGED runnable_jobs
    /\ SchedRest

\* schedule.run_pending: the jobs that are due now
RunPending ==
    /\ sched_pc = "run_pending"
    /\ runnable_jobs' = SortedJobs({j \in DOMAIN next_run : next_run[j] <= 0}, next_run)
    /\ sched_pc' = "running"
    /\ UNCHANGED <<next_run, last_job, job_failed>>
    /\ SchedRest

\* the next_run of a job that has just returned
Rescheduled(j, due) ==
    IF Registered[j].group = "daily"
    THEN HalfHoursPerDay + due
    ELSE HoursInterval

\* the pass runs its next job, which catches what it raises and returns
RunJob(ok, ticks) ==
    /\ sched_pc = "running"
    /\ runnable_jobs # <<>>
    /\ LET j == Head(runnable_jobs)
       IN  /\ last_job' = [last_job EXCEPT ![Registered[j].group] = Registered[j].job_func]
           /\ next_run' = [Elapse(next_run, ticks) EXCEPT
                              ![j] = Rescheduled(j, next_run[j] - ticks)]
    /\ job_failed' = ~ok
    /\ runnable_jobs' = Tail(runnable_jobs)
    /\ UNCHANGED sched_pc
    /\ SchedRest

\* the pass is over: time.sleep, then the next pass
Sleep ==
    /\ sched_pc = "running"
    /\ runnable_jobs = <<>>
    /\ next_run' = Elapse(next_run, 1)
    /\ sched_pc' = "run_pending"
    /\ UNCHANGED <<runnable_jobs, last_job, job_failed>>
    /\ SchedRest

NextSched ==
    \/ \E time_of_day \in 0..(HalfHoursPerDay - 1) : RegisterJobs(time_of_day)
    \/ \E ok \in BOOLEAN, ticks \in JobTicks : InitialJob(ok, ticks)
    \/ RunPending
    \/ \E ok \in BOOLEAN, ticks \in JobTicks : RunJob(ok, ticks)
    \/ Sleep

SpecSched == InitSched /\ [][NextSched]_vars

\* the scheduler is one thread that keeps running
SpecSchedFair == SpecSched /\ WF_vars(NextSched)

\* the run_pending pass runs the registered job j
JobRuns(j) ==
    /\ sched_pc = "running"
    /\ runnable_jobs # <<>>
    /\ Head(runnable_jobs) = j
    /\ runnable_jobs' = Tail(runnable_jobs)

(* C30: the jobs of one cycle run in the order ingest data, engineer        *)
(* features, generate predictions: the initial calls do, and in the daily   *)
(* and in the 6-hourly cycle every job that runs is the one that follows    *)
(* the job of its cycle that ran before it (the first daily job after the   *)
(* start can be any of the three, depending on the time of day).  A failure *)
(* in a job is contained: whatever the jobs' outcomes, every job of both    *)
(* cycles runs again and again.                                             *)
C30_CycleOrderAndContainment ==
    /\ [][sched_pc = "initial"
             => last_job'["initial"] = NextCall(last_job["initial"])]_vars
    /\ [][\A j \in 1..Len(Registered) :
             JobRuns(j) =>
                \/ last_job[Registered[j].group] = "none"
                \/ Registered[j].job_func = NextCall(last_job[Registered[j].group])]_vars
    /\ \A g \in {"daily", "hours"} : \A k \in 1..Len(InitialCalls) :
          []<>(last_job[g] = InitialCalls[k])

====
